---------------------------- MODULE Spec2Model ----------------------------
(***************************************************************************)
(* Verification model of the custom-css round-trip build system:           *)
(*   scripts/plugins/css-file-markers.ts   marker codec, import resolver   *)
(*   scripts/unbundle.ts                   marker-mode unbundle            *)
(*   scripts/lib/css-router.ts             routeBundle, anchor routing     *)
(*   scripts/lib/manifest-sync.ts, sync.ts manifest synchronizer           *)
(*   scripts/plugins/remove-empty-css.ts   empty-node pruner (cleanCss)    *)
(*                                                                         *)
(* Text is modelled as a sequence of atoms.  An atom is an indivisible     *)
(* piece of text: a whitespace character (" " or "\n"), a comment          *)
(* delimiter, a keyword, a path segment, a quote, or the whole text of one *)
(* CSS rule.  The string operations of the code (trim, split on            *)
(* whitespace, startsWith, includes, slice, the regular expressions) are   *)
(* computed atom by atom.  Emoji of the source are written as ASCII names: *)
(* FOLDER, DASH, NOENTRY, WRENCH.                                          *)
(***************************************************************************)
EXTENDS Naturals, Sequences, FiniteSets, TLC

VARIABLES
    disk,    \* the file system: absolute path -> content (a text)
    bld,     \* the build (css-file-markers plugin) in progress
    unb,     \* the unbundle script in progress
    rt,      \* routeBundle in progress
    pure,    \* inputs and results of the pure functions
    sy,      \* the sync script in progress
    pr       \* cleanCss (remove-empty-css plugin) in progress

vars == <<disk, bld, unb, rt, pure, sy, pr>>

-----------------------------------------------------------------------------
(* Strings as sequences of atoms                                           *)

SP == " "
NL == "\n"

IsWs(a) == a \in {SP, NL}

\* s.slice(from) and s.slice(from, to) on 0-based JavaScript indices
Slice(s, from, to) == SubSeq(s, from + 1, to)

RECURSIVE TrimLeft(_)
TrimLeft(s) ==
    IF s # <<>> /\ IsWs(Head(s)) THEN TrimLeft(Tail(s)) ELSE s

RECURSIVE TrimRight(_)
TrimRight(s) ==
    IF s # <<>> /\ IsWs(s[Len(s)]) THEN TrimRight(SubSeq(s, 1, Len(s) - 1)) ELSE s

\* String.prototype.trim
Trim(s) == TrimRight(TrimLeft(s))

\* String.prototype.startsWith
StartsWith(s, p) == Len(s) >= Len(p) /\ SubSeq(s, 1, Len(p)) = p

\* String.prototype.includes
Includes(s, p) ==
    \E i \in 1..(Len(s) + 1) : i + Len(p) - 1 <= Len(s) /\ SubSeq(s, i, i + Len(p) - 1) = p

\* s.split(/\s+/): the pieces between maximal runs of whitespace; a string
\* that begins or ends with whitespace yields an empty piece there, and the
\* empty string yields one empty piece.
RECURSIVE SplitWsFrom(_, _, _)
SplitWsFrom(s, cur, inWs) ==
    IF s = <<>> THEN <<cur>>
    ELSE IF IsWs(Head(s))
         THEN IF inWs THEN SplitWsFrom(Tail(s), cur, TRUE)
              ELSE <<cur>> \o SplitWsFrom(Tail(s), <<>>, TRUE)
         ELSE SplitWsFrom(Tail(s), Append(cur, Head(s)), FALSE)

SplitWs(s) == SplitWsFrom(s, <<>>, FALSE)

\* s.split(sep) for a one-atom separator
RECURSIVE SplitOnFrom(_, _, _)
SplitOnFrom(s, sep, cur) ==
    IF s = <<>> THEN <<cur>>
    ELSE IF Head(s) = sep THEN <<cur>> \o SplitOnFrom(Tail(s), sep, <<>>)
         ELSE SplitOnFrom(Tail(s), sep, Append(cur, Head(s)))

SplitOn(s, sep) == SplitOnFrom(s, sep, <<>>)

\* parts.join(sep)
RECURSIVE Join(_, _)
Join(parts, sep) ==
    IF parts = <<>> THEN <<>>
    ELSE IF Len(parts) = 1 THEN parts[1]
         ELSE parts[1] \o sep \o Join(Tail(parts), sep)

\* s.replace(/\\/g, '/')
RECURSIVE BackslashToSlash(_)
BackslashToSlash(s) ==
    IF s = <<>> THEN <<>>
    ELSE <<IF Head(s) = "\\" THEN "/" ELSE Head(s)>> \o BackslashToSlash(Tail(s))

\* the value null / undefined of a string-valued result; every string the
\* decoders return is non-empty
Null == <<>>

-----------------------------------------------------------------------------
(* Paths (node:path, POSIX flavour)                                        *)

\* path.normalize on the segments of a path: "." and empty segments are
\* dropped and ".." removes the segment before it
RECURSIVE NormSegs(_, _)
NormSegs(segs, acc) ==
    IF segs = <<>> THEN acc
    ELSE LET h == Head(segs) IN
         IF h = <<>> \/ h = <<".">> THEN NormSegs(Tail(segs), acc)
         ELSE IF h = <<"..">>
              THEN IF acc # <<>> /\ acc[Len(acc)] # <<"..">>
                   THEN NormSegs(Tail(segs), SubSeq(acc, 1, Len(acc) - 1))
                   ELSE NormSegs(Tail(segs), Append(acc, h))
              ELSE NormSegs(Tail(segs), Append(acc, h))

IsAbsolute(p) == p # <<>> /\ Head(p) = "/"

\* the segments of an absolute path; ".." at the root stays at the root
RECURSIVE DropLeadingUps(_)
DropLeadingUps(segs) ==
    IF segs # <<>> /\ Head(segs) = <<"..">> THEN DropLeadingUps(Tail(segs)) ELSE segs

AbsSegs(p) == DropLeadingUps(NormSegs(SplitOn(p, "/"), <<>>))

FromAbsSegs(segs) == <<"/">> \o Join(segs, <<"/">>)

\* path.resolve(dir, p) for an absolute dir
resolve(dir, p) ==
    IF IsAbsolute(p) THEN FromAbsSegs(AbsSegs(p))
    ELSE FromAbsSegs(AbsSegs(dir \o <<"/">> \o p))

\* path.dirname of an absolute path
dirname(p) ==
    LET segs == AbsSegs(p) IN
    IF segs = <<>> THEN <<"/">> ELSE FromAbsSegs(SubSeq(segs, 1, Len(segs) - 1))

RECURSIVE CommonPrefixLen(_, _)
CommonPrefixLen(a, b) ==
    IF a # <<>> /\ b # <<>> /\ Head(a) = Head(b)
    THEN 1 + CommonPrefixLen(Tail(a), Tail(b)) ELSE 0

\* path.relative(from, to) for absolute paths
relative(from, to) ==
    LET f == AbsSegs(from)
        t == AbsSegs(to)
        n == CommonPrefixLen(f, t)
        ups == [i \in 1..(Len(f) - n) |-> <<"..">>]
    IN Join(ups \o SubSeq(t, n + 1, Len(t)), <<"/">>)

\* path.join(root, p): concatenate and normalize
join(root, p) == FromAbsSegs(AbsSegs(root \o <<"/">> \o p))

\* scripts/lib/config.ts
ROOT_DIR == <<"/", "proj">>
SRC_DIR == resolve(ROOT_DIR, <<"src">>)
ENTRY_FILE == resolve(SRC_DIR, <<"main", ".css">>)

-----------------------------------------------------------------------------
(* Marker codec: scripts/plugins/css-file-markers.ts                       *)

FILE_MARKER_TOKEN == <<"@file:">>
MARKER_PREFIX == <<"/*", SP, "FOLDER", SP, "@file:">>
MARKER_SUFFIX == <<"DASH", SP, "NOENTRY", SP, "Keep", SP, "this", SP, "comment", SP, "*/">>

\* comment.replace(/^\/\*|\*\/$/g, '')
StripDelims(comment) ==
    LET a == IF comment # <<>> /\ Head(comment) = "/*" THEN Tail(comment) ELSE comment
    IN IF a # <<>> /\ a[Len(a)] = "*/" THEN SubSeq(a, 1, Len(a) - 1) ELSE a

parseFileMarker(comment) ==
    LET body == Trim(StripDelims(comment))
        parts == SplitWs(body)
        marker == IF Len(parts) >= 2 THEN parts[2] ELSE Null
        path == IF Len(parts) >= 3 THEN parts[3] ELSE Null
    IN IF marker = FILE_MARKER_TOKEN /\ path # <<>> THEN path ELSE Null

createFileMarker(filePath) ==
    LET relativePath == BackslashToSlash(relative(ROOT_DIR, filePath))
    IN MARKER_PREFIX \o <<SP>> \o relativePath \o <<SP>> \o MARKER_SUFFIX


-----------------------------------------------------------------------------
(* Anchor router, pure part: scripts/lib/css-router.ts                     *)

FILE_MARKER_PREFIX == <<"@file:">>

QUOTES == {"\"", "'"}
ANCHOR_KEY == "[data-css-anchor="

\* index of the first quote atom of s at or after position i, 0 when none
RECURSIVE NextQuote(_, _)
NextQuote(s, i) ==
    IF i > Len(s) THEN 0
    ELSE IF s[i] \in QUOTES THEN i ELSE NextQuote(s, i + 1)

\* ANCHOR_REGEX = /\[data-css-anchor=["']([^"']+)["']\]/g tried at position
\* i: the key, a quote, one or more non-quote atoms, a quote, "]".
\* The result is the index of the closing "]" (0: no match at i).
AnchorMatchEnd(s, i) ==
    IF i + 1 <= Len(s) /\ s[i] = ANCHOR_KEY /\ s[i + 1] \in QUOTES
    THEN LET j == NextQuote(s, i + 2)
         IN IF j > i + 2 /\ j + 1 <= Len(s) /\ s[j + 1] = "]" THEN j + 1 ELSE 0
    ELSE 0

\* selector.matchAll(ANCHOR_REGEX): the captured values, scanning from i
RECURSIVE AnchorsFrom(_, _)
AnchorsFrom(s, i) ==
    IF i > Len(s) THEN {}
    ELSE LET e == AnchorMatchEnd(s, i)
         IN IF e = 0 THEN AnchorsFrom(s, i + 1)
            ELSE {SubSeq(s, i + 2, e - 2)} \cup AnchorsFrom(s, e + 1)

extractAnchors(selector) == AnchorsFrom(selector, 1)

\* the loop of routeSelectors that accumulates allAnchors
RECURSIVE AllAnchors(_)
AllAnchors(selectors) ==
    IF selectors = <<>> THEN {}
    ELSE extractAnchors(Head(selectors)) \cup AllAnchors(Tail(selectors))

GlobalRoute == [type |-> "global", widgetName |-> Null]
WidgetRoute(name) == [type |-> "widget", widgetName |-> name]

\* a mutant of routeSelectors: any rule that names an anchor goes to a
\* widget file (size >= 1 instead of size === 1)
routeSelectors_atLeastOne(selectors) ==
    LET allAnchors == AllAnchors(selectors)
    IN IF allAnchors # {}
       THEN WidgetRoute(CHOOSE a \in allAnchors : TRUE)
       ELSE GlobalRoute

routeSelectors(selectors) ==
    LET allAnchors == AllAnchors(selectors)
    IN IF Cardinality(allAnchors) = 1
       THEN WidgetRoute(CHOOSE a \in allAnchors : TRUE)
       ELSE GlobalRoute

getFilePath(route) ==
    CASE route.type = "widget" ->
            <<"src", "/", "by-css-anchor", "/">> \o route.widgetName \o <<".css">>
      [] route.type = "global" -> <<"src", "/", "common", "/", "global", ".css">>
      [] route.type = "quarantine" -> <<"src", "/", "quarantine", ".css">>

\* rule.selector.split(',').map(s => s.trim())
RECURSIVE MapTrim(_)
MapTrim(parts) ==
    IF parts = <<>> THEN <<>> ELSE <<Trim(Head(parts))>> \o MapTrim(Tail(parts))

SplitSelectors(selector) == MapTrim(SplitOn(selector, ","))

\* css-router.ts's own parseFileMarker, applied to comment.text
parseFileMarker_router(text) ==
    LET trimmed == Trim(text)
    IN IF ~StartsWith(trimmed, FILE_MARKER_PREFIX) THEN Null
       ELSE Trim(Slice(trimmed, Len(FILE_MARKER_PREFIX), Len(trimmed)))

\* postcss: the text of a comment node is what stands between the
\* delimiters, trimmed
CommentText(comment) ==
    LET a == IF comment # <<>> /\ Head(comment) = "/*" THEN Tail(comment) ELSE comment
        b == IF a # <<>> /\ a[Len(a)] = "*/" THEN SubSeq(a, 1, Len(a) - 1) ELSE a
    IN Trim(b)

-----------------------------------------------------------------------------
(* Bounded inputs of the pure functions                                    *)

MaxPathSegs == 2
MaxCommentWords == 3
MaxSelectors == 2

\* all sequences over S of length lo..hi
SeqsOf(S, lo, hi) == UNION {[1..n -> S] : n \in lo..hi}

\* path segments: a directory, a file, a file name with a space in it, a
\* name with a backslash in it
SegMenu ==
    {<<"src">>, <<"a", ".css">>, <<"my", SP, "file", ".css">>, <<"x", "\\", "y">>}

\* absolute paths of files under the project root
PathInputs ==
    {ROOT_DIR \o <<"/">> \o Join(segs, <<"/">>) : segs \in SeqsOf(SegMenu, 1, MaxPathSegs)}

WordMenu == {<<"FOLDER">>, <<"@file:">>, <<"src", "/", "a", ".css">>, <<"x">>}

\* comments as they stand in a bundle: the delimiters around words
\* separated by single spaces
CommentOf(words) ==
    IF words = <<>> THEN <<"/*", SP, "*/">>
    ELSE <<"/*", SP>> \o Join(words, <<SP>>) \o <<SP, "*/">>

CommentInputs == {CommentOf(w) : w \in SeqsOf(WordMenu, 0, MaxCommentWords)}

Q2 == "\""
Q1 == "'"

SelectorMenu ==
    { <<".plain">>,
      <<ANCHOR_KEY, Q2, "header", Q2, "]">>,
      <<"#customcss", SP, ANCHOR_KEY, Q1, "footer", Q1, "]", SP, ".link">>,
      <<ANCHOR_KEY, Q2, "header", Q2, "]", SP, ANCHOR_KEY, Q1, "header", Q1, "]">>,
      <<ANCHOR_KEY, Q2, "header", Q2, "]", ANCHOR_KEY, Q2, "footer", Q2, "]">>,
      <<ANCHOR_KEY, Q2, Q2, "]">>,
      <<ANCHOR_KEY, "header", "]">>,
      <<ANCHOR_KEY, Q2, "..", "/", "up", Q2, "]">>,
      <<"[data-other=", Q2, "header", Q2, "]">> }

SelectorInputs == SeqsOf(SelectorMenu, 1, MaxSelectors)

-----------------------------------------------------------------------------
(* Idle values of the components a specification does not run              *)

NoDisk == <<>>
IdleBld == [phase |-> "idle"]
IdleUnb == [phase |-> "idle"]
IdleRt == [phase |-> "idle"]
IdlePure == [kind |-> "none"]
IdleSy == [phase |-> "idle"]
IdlePr == [phase |-> "idle"]

-----------------------------------------------------------------------------
(* SpecPure: the pure functions applied to bounded inputs                  *)

PureStart(kind, in) ==
    [kind |-> kind, in |-> in, done |-> {}, marker |-> Null,
     viaPlugin |-> Null, viaRouter |-> Null, route |-> GlobalRoute]

InitPure ==
    /\ pr = IdlePr /\ disk = NoDisk /\ bld = IdleBld /\ unb = IdleUnb /\ rt = IdleRt /\ sy = IdleSy
    /\ \/ \E p \in PathInputs : pure = PureStart("path", p)
       \/ \E c \in CommentInputs : pure = PureStart("comment", c)
       \/ \E sl \in SelectorInputs : pure = PureStart("selectors", sl)

\* the comment a decoder is handed: the marker just encoded, or the input
PureComment ==
    IF pure.kind = "path" THEN pure.marker ELSE pure.in

PureReadyToDecode ==
    \/ pure.kind = "path" /\ "encode" \in pure.done
    \/ pure.kind = "comment"

Pure_createFileMarker ==
    /\ pure.kind = "path" /\ "encode" \notin pure.done
    /\ pure' = [pure EXCEPT !.marker = createFileMarker(pure.in),
                            !.done = @ \cup {"encode"}]
    /\ UNCHANGED <<disk, bld, unb, rt, sy, pr>>

Pure_parseFileMarker ==
    /\ PureReadyToDecode /\ "plugin" \notin pure.done
    /\ pure' = [pure EXCEPT !.viaPlugin = parseFileMarker(PureComment),
                            !.done = @ \cup {"plugin"}]
    /\ UNCHANGED <<disk, bld, unb, rt, sy, pr>>

Pure_parseFileMarker_router ==
    /\ PureReadyToDecode /\ "router" \notin pure.done
    /\ pure' = [pure EXCEPT !.viaRouter = parseFileMarker_router(CommentText(PureComment)),
                            !.done = @ \cup {"router"}]
    /\ UNCHANGED <<disk, bld, unb, rt, sy, pr>>

Pure_routeSelectors ==
    /\ pure.kind = "selectors" /\ "route" \notin pure.done
    /\ pure' = [pure EXCEPT !.route = routeSelectors(pure.in),
                            !.done = @ \cup {"route"}]
    /\ UNCHANGED <<disk, bld, unb, rt, sy, pr>>

NextPure ==
    \/ Pure_createFileMarker
    \/ Pure_parseFileMarker
    \/ Pure_parseFileMarker_router
    \/ Pure_routeSelectors

SpecPure == InitPure /\ [][NextPure]_vars

-----------------------------------------------------------------------------
(* routeBundle: scripts/lib/css-router.ts                                  *)

MaxNodes == 3

\* A top-level node of the parse tree postcss.parse returns.
\*   type      "comment", "rule", "atrule"
\*   text      comment.text (comments)
\*   selector  rule.selector (rules)
\*   name      atRule.name (at-rules)
\*   inner     the selectors of the rules nested in an at-rule, at any
\*             depth, in the order walkRules visits them
\*   body      what stands for the node's block in its serialization
\*   raises    processing the node throws inside the try block
CommentNode(text) ==
    [type |-> "comment", text |-> text, selector |-> <<>>, name |-> "",
     inner |-> <<>>, body |-> "", raises |-> FALSE]
RuleNode(selector, body) ==
    [type |-> "rule", text |-> <<>>, selector |-> selector, name |-> "",
     inner |-> <<>>, body |-> body, raises |-> FALSE]
AtRuleNode(name, inner, body) ==
    [type |-> "atrule", text |-> <<>>, selector |-> <<>>, name |-> name,
     inner |-> inner, body |-> body, raises |-> FALSE]
Raising(node) == [node EXCEPT !.raises = TRUE]

\* node.toString()
nodeToString(node) ==
    CASE node.type = "comment" -> <<"/*", SP>> \o node.text \o <<SP, "*/">>
      [] node.type = "rule" -> node.selector \o <<SP, node.body>>
      [] node.type = "atrule" ->
            <<"@", node.name, SP>> \o Join(node.inner, <<SP>>) \o <<SP, node.body>>

SelHeader == <<"#customcss", SP, ANCHOR_KEY, Q2, "header", Q2, "]">>
SelFooter == <<ANCHOR_KEY, Q1, "footer", Q1, "]", SP, ".link">>
SelPlain == <<".plain">>

OldMarkerText(path) == <<"@file:", SP>> \o path
PathA == <<"src", "/", "a", ".css">>
PathB == <<"src", "/", "pages", "/", "b", ".css">>

\* comment.text of the comment BUNDLE_HEADER holds (css-file-markers.ts)
HeaderText ==
    <<"WRENCH", SP, "Built", SP, "with", SP, "custom-css", SP, "toolkit", SP, "|",
      SP, "Markers", SP, "enable", SP, "round-trip", SP, "editing">>

NodeMenu ==
    { CommentNode(OldMarkerText(PathA)),
      CommentNode(OldMarkerText(PathB)),
      CommentNode(CommentText(createFileMarker(join(ROOT_DIR, PathA)))),
      CommentNode(<<"!", SP, "Custom", SP, "Platform", SP, "Styles">>),
      CommentNode(HeaderText),
      CommentNode(<<"note">>),
      RuleNode(SelHeader, "{h}"),
      RuleNode(SelPlain, "{p}"),
      RuleNode(SelHeader \o <<",", NL>> \o SelFooter, "{hf}"),
      AtRuleNode("media", <<SelFooter>>, "{mf}"),
      AtRuleNode("media", <<SelHeader, SelFooter>>, "{mhf}"),
      AtRuleNode("supports", <<SelPlain, SelHeader, SelHeader>>, "{sphh}"),
      AtRuleNode("keyframes", <<>>, "{k}"),
      AtRuleNode("import", <<>>, "url(x.css)"),
      AtRuleNode("charset", <<>>, "utf-8"),
      Raising(RuleNode(SelHeader, "{bad}")) }

\* files: Map<string, string[]>, a JavaScript Map in insertion order
HasKey(files, path) == \E k \in 1..Len(files) : files[k].path = path
KeyIndex(files, path) == CHOOSE k \in 1..Len(files) : files[k].path = path
MapGet(files, path) ==
    IF HasKey(files, path) THEN files[KeyIndex(files, path)].val ELSE <<>>

\* a mutant of addToFile: files.set(filePath, [css]) whatever the key held
addToFile_overwrite(files, filePath, css) ==
    LET withKey == IF HasKey(files, filePath) THEN files
                   ELSE Append(files, [path |-> filePath, val |-> <<>>])
        k == KeyIndex(withKey, filePath)
    IN [withKey EXCEPT ![k].val = <<css>>]

addToFile(files, filePath, css) ==
    LET withKey == IF HasKey(files, filePath) THEN files
                   ELSE Append(files, [path |-> filePath, val |-> <<>>])
        k == KeyIndex(withKey, filePath)
    IN [withKey EXCEPT ![k].val = Append(@, css)]

\* the banner test of routeBundle
IsBanner(text) ==
    LET t == Trim(text) IN StartsWith(t, <<"!">>) \/ Includes(t, <<"Version:">>)

\* the union of anchors over the rules inside an at-rule (walkRules)
RECURSIVE InnerAnchors(_)
InnerAnchors(inner) ==
    IF inner = <<>> THEN {}
    ELSE AllAnchors(SplitSelectors(Head(inner))) \cup InnerAnchors(Tail(inner))

\* a mutant of AnchorDest: an at-rule is placed by the first rule nested
\* in it
AnchorDest_firstRule(node) ==
    IF node.type = "rule"
    THEN getFilePath(routeSelectors(SplitSelectors(node.selector)))
    ELSE IF node.type = "atrule" /\ node.name \in {"media", "supports"}
              /\ node.inner # <<>>
         THEN getFilePath(routeSelectors(SplitSelectors(Head(node.inner))))
         ELSE getFilePath(GlobalRoute)

\* anchor-based routing of a rule or at-rule
AnchorDest(node) ==
    IF node.type = "rule"
    THEN getFilePath(routeSelectors(SplitSelectors(node.selector)))
    ELSE IF node.type = "atrule" /\ node.name \in {"media", "supports"}
         THEN LET innerAnchors == InnerAnchors(node.inner)
              IN IF Cardinality(innerAnchors) = 1
                 THEN getFilePath(WidgetRoute(CHOOSE a \in innerAnchors : TRUE))
                 ELSE getFilePath(GlobalRoute)
         ELSE getFilePath(GlobalRoute)

\* a mutant of TargetFile: a rule's own anchor is trusted before the
\* marker (the resolution of the anchor-only version of the router)
TargetFile_anchorFirst(node, currentFile) ==
    IF node.type = "comment"
    THEN IF currentFile # Null THEN currentFile ELSE getFilePath(GlobalRoute)
    ELSE IF AnchorDest(node) # getFilePath(GlobalRoute) THEN AnchorDest(node)
         ELSE IF currentFile # Null THEN currentFile ELSE AnchorDest(node)

\* the destination of a node that is neither a marker nor a banner
TargetFile(node, currentFile) ==
    IF node.type = "comment"
    THEN IF currentFile # Null THEN currentFile ELSE getFilePath(GlobalRoute)
    ELSE IF currentFile # Null THEN currentFile
         ELSE AnchorDest(node)

RouteStart(nodes, broken) ==
    [phase |-> "parse", nodes |-> nodes, broken |-> broken, i |-> 0,
     files |-> <<>>, quarantine |-> <<>>, errors |-> <<>>, currentFile |-> Null]

\* the bundle text handed to routeBundle
CssContent(r) ==
    Join([k \in 1..Len(r.nodes) |-> nodeToString(r.nodes[k])], <<NL>>)
        \o (IF r.broken THEN <<NL, "}">> ELSE <<>>)

InitRoute ==
    /\ pr = IdlePr /\ disk = NoDisk /\ bld = IdleBld /\ unb = IdleUnb /\ pure = IdlePure /\ sy = IdleSy
    /\ \E nodes \in SeqsOf(NodeMenu, 0, MaxNodes), broken \in BOOLEAN :
          rt = RouteStart(nodes, broken)

\* a mutant of ParseFailed: only the text the parser stopped at is
\* quarantined
ParseFailed_tailOnly(r) ==
    [r EXCEPT !.phase = "done",
              !.errors = Append(@, "Failed to parse CSS"),
              !.quarantine = Append(@, <<"}">>)]

\* the catch block around postcss.parse and its return
ParseFailed(r) ==
    [r EXCEPT !.phase = "done",
              !.errors = Append(@, "Failed to parse CSS"),
              !.quarantine = Append(@, CssContent(r))]

\* postcss.parse(cssContent) and its catch
Route_Parse ==
    /\ rt.phase = "parse"
    /\ rt' = IF rt.broken THEN ParseFailed(rt) ELSE [rt EXCEPT !.phase = "route"]
    /\ UNCHANGED <<disk, bld, unb, pure, sy, pr>>

\* a mutant of RouteStep: a node that raises ends the pass
RouteStep_abortOnRaise(r) ==
    LET node == r.nodes[r.i + 1]
        markerPath == parseFileMarker_router(node.text)
    IN IF node.raises
       THEN [r EXCEPT !.i = Len(r.nodes),
                      !.errors = Append(@, "Error processing node"),
                      !.quarantine = Append(@, nodeToString(node))]
       ELSE IF node.type = "comment" /\ markerPath # Null
       THEN [r EXCEPT !.i = @ + 1, !.currentFile = markerPath]
       ELSE IF node.type = "comment" /\ IsBanner(node.text)
       THEN [r EXCEPT !.i = @ + 1]
       ELSE [r EXCEPT !.i = @ + 1,
                      !.files = addToFile(@, TargetFile(node, r.currentFile),
                                          nodeToString(node))]

\* the forEach callback applied to the next node: the locals of
\* routeBundle after it
RouteStep(r) ==
    LET node == r.nodes[r.i + 1]
        markerPath == parseFileMarker_router(node.text)
    IN IF node.raises
       THEN [r EXCEPT !.i = @ + 1,
                      !.errors = Append(@, "Error processing node"),
                      !.quarantine = Append(@, nodeToString(node))]
       ELSE IF node.type = "comment" /\ markerPath # Null
       THEN [r EXCEPT !.i = @ + 1, !.currentFile = markerPath]
       ELSE IF node.type = "comment" /\ IsBanner(node.text)
       THEN [r EXCEPT !.i = @ + 1]
       ELSE [r EXCEPT !.i = @ + 1,
                      !.files = addToFile(@, TargetFile(node, r.currentFile),
                                          nodeToString(node))]

\* one call of the forEach callback
Route_Node ==
    /\ rt.phase = "route" /\ rt.i < Len(rt.nodes)
    /\ rt' = RouteStep(rt)
    /\ UNCHANGED <<disk, bld, unb, pure, sy, pr>>

\* root.nodes.forEach: the callback applied to every remaining node
RECURSIVE RouteAll(_)
RouteAll(r) == IF r.i >= Len(r.nodes) THEN r ELSE RouteAll(RouteStep(r))

\* return { files, quarantine, errors }
Route_Return ==
    /\ rt.phase = "route" /\ rt.i = Len(rt.nodes)
    /\ rt' = [rt EXCEPT !.phase = "done"]
    /\ UNCHANGED <<disk, bld, unb, pure, sy, pr>>

NextRoute ==
    \/ Route_Parse
    \/ Route_Node
    \/ Route_Return

SpecRoute == InitRoute /\ [][NextRoute]_vars

-----------------------------------------------------------------------------
(* Source trees: the bounded inputs of build                               *)

MaxParts == 4

INPUT_BUNDLE_PATH == resolve(resolve(ROOT_DIR, <<"input">>), <<"platform-bundle", ".css">>)
OUTPUT_BUNDLE_PATH == resolve(resolve(ROOT_DIR, <<"dist">>), <<"platform-bundle", ".css">>)

FileIds == {"main", "a", "b"}

Paths ==
    [main |-> ENTRY_FILE,
     a |-> resolve(SRC_DIR, <<"common", "/", "a", ".css">>),
     b |-> resolve(SRC_DIR, <<"b", ".css">>)]

PathOf(id) == Paths[id]

\* the text of the k-th rule of a file: one atom, different for every file
\* and position
RuleNames ==
    [main |-> <<"m1{}", "m2{}", "m3{}", "m4{}", "m5{}", "m6{}">>,
     a |-> <<"a1{}", "a2{}", "a3{}", "a4{}", "a5{}", "a6{}">>,
     b |-> <<"b1{}", "b2{}", "b3{}", "b4{}", "b5{}", "b6{}">>]

NoteNames == [main |-> "note-m", a |-> "note-a", b |-> "note-b"]

\* the path an @import of file `to` is written with inside file `from`
ImportRefs ==
    [from \in FileIds |-> [to \in FileIds |->
        LET r == relative(dirname(PathOf(from)), PathOf(to))
        IN IF Head(r) = ".." THEN r ELSE <<".", "/">> \o r]]

ImportRef(from, to) == ImportRefs[from][to]

\* A file's content is a sequence of parts: "R" one rule of its own, "C"
\* one comment of its own, "Imain", "Ia", "Ib" an @import of that file.
PartSymbols == {"R", "C", "Imain", "Ia", "Ib"}

ImportTarget(sym) ==
    CASE sym = "Imain" -> "main" [] sym = "Ia" -> "a" [] sym = "Ib" -> "b"

IsImportSym(sym) == sym \in {"Imain", "Ia", "Ib"}

PartText(id, shape, k) ==
    CASE shape[k] = "R" -> <<RuleNames[id][k]>>
      [] shape[k] = "C" -> <<"/*", SP, NoteNames[id], SP, "*/">>
      [] OTHER -> <<"@import", SP, Q2>> \o ImportRef(id, ImportTarget(shape[k])) \o <<Q2, ";">>

\* the content of a file with the given parts, one part per line
Render(id, shape) ==
    IF shape = <<>> THEN <<>>
    ELSE Join([k \in 1..Len(shape) |-> PartText(id, shape, k)], <<NL>>) \o <<NL>>

Absent == <<"absent">>

\* A source tree gives every file its parts, or Absent.  The entry file
\* exists; the parts of all files together number at most MaxParts; a
\* comment stands only at the head of a file.
ShapesUpTo ==
    [n \in 0..MaxParts |->
        {sh \in SeqsOf(PartSymbols, 0, n) : \A k \in 2..Len(sh) : sh[k] # "C"}]

Shapes(n) == ShapesUpTo[n]

PartCount(shape) == IF shape = Absent THEN 0 ELSE Len(shape)

ShapesOrAbsent(n) == Shapes(n) \cup {Absent}

TreeOf(m, x, y) == [main |-> m, a |-> x, b |-> y]

DiskOf(tree) ==
    LET present == {id \in FileIds : tree[id] # Absent}
    IN [p \in {PathOf(id) : id \in present} |->
           LET id == CHOOSE x \in present : PathOf(x) = p IN Render(id, tree[id])]

\* fs: existsSync, readFileSync, writeFileSync
existsSync(d, path) == path \in DOMAIN d
readFileSync(d, path) == d[path]
writeFileSafe(d, path, content) ==
    [p \in DOMAIN d \cup {path} |-> IF p = path THEN content ELSE d[p]]

-----------------------------------------------------------------------------
(* Import resolver: scripts/plugins/css-file-markers.ts, resolveImports    *)

BUNDLE_HEADER ==
    <<"/*", SP, "WRENCH", SP, "Built", SP, "with", SP, "custom-css", SP, "toolkit",
      SP, "|", SP, "Markers", SP, "enable", SP, "round-trip", SP, "editing", SP, "*/",
      NL, NL>>

CircularImport(filePath) ==
    <<"/*", SP, "Circular", SP, "import:", SP>> \o filePath \o <<SP, "*/", NL>>

FileNotFound(filePath) ==
    <<"/*", SP, "File", SP, "not", SP, "found:", SP>> \o filePath \o <<SP, "*/", NL>>

RECURSIVE SkipWs(_, _)
SkipWs(s, i) == IF i <= Len(s) /\ IsWs(s[i]) THEN SkipWs(s, i + 1) ELSE i

NoMatch == [found |-> FALSE, index |-> 0, end |-> 0, path |-> <<>>]

\* importRegex = /@import\s+["']([^"']+)["']\s*;?/g tried at position i
\* (1-based): index is the 0-based match.index, end the 0-based index just
\* past match[0], path the captured group
ImportMatchAt(s, i) ==
    IF i <= Len(s) /\ s[i] = "@import"
    THEN LET j == SkipWs(s, i + 1)
         IN IF j > i + 1 /\ j <= Len(s) /\ s[j] \in QUOTES
            THEN LET q == NextQuote(s, j + 1)
                 IN IF q > j + 1
                    THEN LET w == SkipWs(s, q + 1)
                             e == IF w <= Len(s) /\ s[w] = ";" THEN w + 1 ELSE w
                         IN [found |-> TRUE, index |-> i - 1, end |-> e - 1,
                             path |-> SubSeq(s, j + 1, q - 1)]
                    ELSE NoMatch
            ELSE NoMatch
    ELSE NoMatch

\* importRegex.exec(content) with importRegex.lastIndex = from (0-based)
RECURSIVE ImportExec(_, _)
ImportExec(s, from) ==
    IF from >= Len(s) THEN NoMatch
    ELSE LET m == ImportMatchAt(s, from + 1)
         IN IF m.found THEN m ELSE ImportExec(s, from + 1)

\* What a call resolveImports(filePath, visited) does before its loop:
\* it returns at once (kind "return"), or it reaches the loop over the
\* imports of the file (kind "loop").  visited is the set after the call's
\* visited.add.
EnterResult(kind, text, frame, visited) ==
    [kind |-> kind, text |-> text, frame |-> frame, visited |-> visited]

NoFrame == [filePath |-> <<>>]

NewFrame(filePath, content) ==
    [filePath |-> filePath, content |-> content, dir |-> dirname(filePath),
     marker |-> createFileMarker(filePath), result |-> <<>>, lastIndex |-> 0,
     hasContentBeforeImports |-> FALSE]

\* a mutant of resolveImports_enter: a repeated path returns nothing
\* instead of the diagnostic line
resolveImports_enter_silent(d, filePath, visited) ==
    IF filePath \in visited
    THEN EnterResult("return", <<>>, NoFrame, visited)
    ELSE IF ~existsSync(d, filePath)
    THEN EnterResult("return", FileNotFound(filePath), NoFrame, visited \cup {filePath})
    ELSE LET content == readFileSync(d, filePath)
         IN IF ~ImportExec(content, 0).found
            THEN EnterResult("return",
                    createFileMarker(filePath) \o <<NL>> \o Trim(content) \o <<NL>>,
                    NoFrame, visited \cup {filePath})
            ELSE EnterResult("loop", <<>>, NewFrame(filePath, content),
                             visited \cup {filePath})

\* a mutant of resolveImports_enter: a file that does not exist returns
\* nothing instead of the diagnostic line
resolveImports_enter_noPlaceholder(d, filePath, visited) ==
    IF filePath \in visited
    THEN EnterResult("return", CircularImport(filePath), NoFrame, visited)
    ELSE IF ~existsSync(d, filePath)
    THEN EnterResult("return", <<>>, NoFrame, visited \cup {filePath})
    ELSE LET content == readFileSync(d, filePath)
         IN IF ~ImportExec(content, 0).found
            THEN EnterResult("return",
                    createFileMarker(filePath) \o <<NL>> \o Trim(content) \o <<NL>>,
                    NoFrame, visited \cup {filePath})
            ELSE EnterResult("loop", <<>>, NewFrame(filePath, content),
                             visited \cup {filePath})

resolveImports_enter(d, filePath, visited) ==
    IF filePath \in visited
    THEN EnterResult("return", CircularImport(filePath), NoFrame, visited)
    ELSE IF ~existsSync(d, filePath)
    THEN EnterResult("return", FileNotFound(filePath), NoFrame, visited \cup {filePath})
    ELSE LET content == readFileSync(d, filePath)
         IN IF ~ImportExec(content, 0).found
            THEN EnterResult("return",
                    createFileMarker(filePath) \o <<NL>> \o Trim(content) \o <<NL>>,
                    NoFrame, visited \cup {filePath})
            ELSE EnterResult("loop", <<>>, NewFrame(filePath, content),
                             visited \cup {filePath})

\* the part of one loop iteration before the recursive call: the content
\* before the import, under the file's marker the first time
BeforeImport(frame, match) ==
    LET beforeImport == Trim(Slice(frame.content, frame.lastIndex, match.index))
    IN IF beforeImport # <<>> /\ ~StartsWith(beforeImport, <<"/*">>)
       THEN [frame EXCEPT
               !.result = @ \o (IF frame.hasContentBeforeImports THEN <<>>
                                ELSE frame.marker \o <<NL>>)
                            \o beforeImport \o <<NL>>,
               !.hasContentBeforeImports = TRUE]
       ELSE frame

\* a mutant of AfterImports: the content after the last import is put
\* before what the loop collected
AfterImports_first(frame) ==
    LET afterImports == Trim(Slice(frame.content, frame.lastIndex, Len(frame.content)))
    IN IF afterImports # <<>>
       THEN frame.marker \o <<NL>> \o afterImports \o <<NL>> \o frame.result
       ELSE frame.result

\* the part of the function after its loop: the content after the last
\* import, under the file's marker; the value is the function's result
AfterImports(frame) ==
    LET afterImports == Trim(Slice(frame.content, frame.lastIndex, Len(frame.content)))
    IN IF afterImports # <<>>
       THEN frame.result \o frame.marker \o <<NL>> \o afterImports \o <<NL>>
       ELSE frame.result

-----------------------------------------------------------------------------
(* Marker-mode unbundle: scripts/unbundle.ts (lines 139-305)               *)

ContainsStar(a) == a \in {"/*", "*/", "*"}

RECURSIVE NextStar(_, _)
NextStar(s, i) ==
    IF i > Len(s) THEN 0
    ELSE IF ContainsStar(s[i]) THEN i ELSE NextStar(s, i + 1)

\* MARKER_COMMENT_REGEX = /\/\*\s*FOLDER\s*@file:[^*]*\*\//g tried at
\* position i (1-based); the result is the position of the closing
\* delimiter (0: no match at i)
MarkerCommentEnd(s, i) ==
    IF i <= Len(s) /\ s[i] = "/*"
    THEN LET j == SkipWs(s, i + 1)
         IN IF j <= Len(s) /\ s[j] = "FOLDER"
            THEN LET k == SkipWs(s, j + 1)
                 IN IF k <= Len(s) /\ s[k] = "@file:"
                    THEN LET e == NextStar(s, k + 1)
                         IN IF e # 0 /\ s[e] = "*/" THEN e ELSE 0
                    ELSE 0
            ELSE 0
    ELSE 0

\* the while loop of parseByMarkers: the markers found from position i on,
\* those parseFileMarker decodes; start and end are 0-based as in the code
RECURSIVE MarkerPositions(_, _)
MarkerPositions(s, i) ==
    IF i > Len(s) THEN <<>>
    ELSE LET e == MarkerCommentEnd(s, i)
         IN IF e = 0 THEN MarkerPositions(s, i + 1)
            ELSE LET path == parseFileMarker(SubSeq(s, i, e))
                 IN (IF path # Null
                     THEN <<[path |-> path, start |-> i - 1, end |-> e]>>
                     ELSE <<>>) \o MarkerPositions(s, e + 1)

\* Map.prototype.set on a Map in insertion order
MapSet(files, path, val) ==
    IF HasKey(files, path)
    THEN [files EXCEPT ![KeyIndex(files, path)].val = val]
    ELSE Append(files, [path |-> path, val |-> val])

\* the content that stands under the i-th marker
MarkerContent(s, pos, i) ==
    LET contentStart == pos[i].end
        contentEnd == IF i < Len(pos) THEN pos[i + 1].start ELSE Len(s)
    IN Trim(Slice(s, contentStart, contentEnd))

\* the second loop of parseByMarkers, from the i-th marker on
RECURSIVE ExtractFiles(_, _, _, _)
ExtractFiles(s, pos, i, files) ==
    IF i > Len(pos) THEN files
    ELSE LET content == MarkerContent(s, pos, i)
         IN ExtractFiles(s, pos, i + 1,
               MapSet(files, pos[i].path,
                      IF content # <<>> THEN content \o <<NL>> ELSE <<>>))

parseByMarkers(bundleContent) ==
    ExtractFiles(bundleContent, MarkerPositions(bundleContent, 1), 1, <<>>)

MAIN_CSS == <<"src", "/", "main", ".css">>
SRC_SLASH == <<"src", "/">>

\* filePath.replace("src/", ""): the first occurrence is removed
RECURSIVE RemoveFirst(_, _)
RemoveFirst(s, p) ==
    IF Len(s) < Len(p) THEN s
    ELSE IF SubSeq(s, 1, Len(p)) = p THEN SubSeq(s, Len(p) + 1, Len(s))
         ELSE <<Head(s)>> \o RemoveFirst(Tail(s), p)

\* importPaths.map(p => `@import "${p}";`).join("\n") + "\n"
RECURSIVE ImportLines(_)
ImportLines(importPaths) ==
    IF importPaths = <<>> THEN <<>>
    ELSE <<<<"@import", SP, Q2>> \o Head(importPaths) \o <<Q2, ";">>>>
            \o ImportLines(Tail(importPaths))

mainCssContent(importPaths) == Join(ImportLines(importPaths), <<NL>>) \o <<NL>>

-----------------------------------------------------------------------------
(* Spec: build, then the bundle is placed in input/, then unbundle; or     *)
(* unbundle of a bundle that was placed in input/ by hand                  *)

MaxBundleParts == 3

BundleRules == <<"x1{}", "x2{}", "x3{}", "x4{}", "x5{}">>

\* the pieces of a hand-placed bundle: "MA", "MB", "MM" a marker as build
\* writes it for src/a.css, src/pages/b.css, src/main.css; "OA" a marker
\* in the form /* @file: src/a.css */; "MX" a marker as build writes it
\* for lib/x.css, a file outside src/; "MU" a marker in the same form
\* for ../out.css; "R" a rule; "C" a comment
BundleSymbols == {"MA", "MB", "MM", "MX", "MU", "OA", "R", "C"}

PathX == <<"lib", "/", "x", ".css">>
PathUp == <<"..", "/", "out", ".css">>

BundlePiece(shape, k) ==
    CASE shape[k] = "MA" -> createFileMarker(join(ROOT_DIR, PathA))
      [] shape[k] = "MB" -> createFileMarker(join(ROOT_DIR, PathB))
      [] shape[k] = "MM" -> createFileMarker(join(ROOT_DIR, MAIN_CSS))
      [] shape[k] = "MX" -> createFileMarker(join(ROOT_DIR, PathX))
      [] shape[k] = "MU" -> MARKER_PREFIX \o <<SP>> \o PathUp \o <<SP>> \o MARKER_SUFFIX
      [] shape[k] = "OA" -> <<"/*", SP>> \o OldMarkerText(PathA) \o <<SP, "*/">>
      [] shape[k] = "R" -> <<BundleRules[k]>>
      [] shape[k] = "C" -> <<"/*", SP, "note", SP, "*/">>

BundleOf(shape) ==
    IF shape = <<>> THEN <<>>
    ELSE Join([k \in 1..Len(shape) |-> BundlePiece(shape, k)], <<NL>>) \o <<NL>>

InputBundles == {BundleOf(sh) : sh \in SeqsOf(BundleSymbols, 0, MaxBundleParts)}

NoTree == [main |-> Absent, a |-> Absent, b |-> Absent]

\* bld.tree records the source tree build started from; bld.steps counts
\* the steps of resolveImports taken so far
BuildStart(tree) ==
    [phase |-> "idle", tree |-> tree, stack |-> <<>>, visited |-> {},
     out |-> <<>>, steps |-> 0]

UnbundleStart ==
    [phase |-> "idle", exit |-> 0, message |-> "", bundle |-> <<>>, files |-> <<>>,
     k |-> 0, importPaths |-> <<>>, updatedCount |-> 0, anchorCount |-> 0,
     written |-> <<>>]

\* the disk holds some source tree and build has not started
StartFromTree ==
    \E m \in Shapes(MaxParts) :
        \E x \in ShapesOrAbsent(MaxParts - Len(m)) :
            \E y \in ShapesOrAbsent(MaxParts - Len(m) - PartCount(x)) :
                /\ disk = DiskOf(TreeOf(m, x, y))
                /\ bld = BuildStart(TreeOf(m, x, y))

Init ==
    /\ pr = IdlePr /\ rt = IdleRt /\ pure = IdlePure /\ sy = IdleSy
    /\ unb = UnbundleStart
    /\ \/ StartFromTree
       \/ \E bundle \in InputBundles :
             /\ disk = [p \in {INPUT_BUNDLE_PATH} |-> bundle]
             /\ bld = BuildStart(NoTree)
       \/ disk = NoDisk /\ bld = BuildStart(NoTree)

Top(stack) == stack[Len(stack)]
Pop(stack) == SubSeq(stack, 1, Len(stack) - 1)
ReplaceTop(stack, frame) == [stack EXCEPT ![Len(stack)] = frame]

\* the value resolveImports(entry) returned to load()
Loaded(b, visited, text) ==
    [b EXCEPT !.phase = "loaded", !.stack = <<>>, !.visited = visited,
              !.out = BUNDLE_HEADER \o text, !.steps = @ + 1]

\* cssFileMarkersPlugin.load(id) for the entry file: the call
\* resolveImports(id) up to its loop
LoadStep(b, d) ==
    LET r == resolveImports_enter(d, ENTRY_FILE, {})
    IN IF r.kind = "return" THEN Loaded(b, r.visited, r.text)
       ELSE [b EXCEPT !.phase = "resolving", !.stack = <<r.frame>>,
                      !.visited = r.visited, !.steps = @ + 1]

\* one iteration of the while loop of the innermost call: the content
\* before the import, then the recursive call up to its loop
ImportStep(b, d) ==
    LET top == Top(b.stack)
        match == ImportExec(top.content, top.lastIndex)
        before == BeforeImport(top, match)
        resolvedPath == resolve(top.dir, match.path)
        r == resolveImports_enter(d, resolvedPath, b.visited)
        next == [before EXCEPT !.lastIndex = match.end]
    IN [b EXCEPT
          !.visited = r.visited,
          !.steps = @ + 1,
          !.stack = IF r.kind = "return"
                    THEN ReplaceTop(@, [next EXCEPT !.result = @ \o r.text])
                    ELSE Append(ReplaceTop(@, next), r.frame)]

\* the loop of the innermost call ends: the content after the last import,
\* and the return to the caller, which appends the result
ReturnStep(b) ==
    LET top == Top(b.stack)
        result == AfterImports(top)
        rest == Pop(b.stack)
    IN IF rest = <<>> THEN Loaded(b, b.visited, result)
       ELSE [b EXCEPT
               !.steps = @ + 1,
               !.stack = ReplaceTop(rest, [Top(rest) EXCEPT !.result = @ \o result])]

\* the innermost call's regex finds another import
HasNextImport(b) ==
    ImportExec(Top(b.stack).content, Top(b.stack).lastIndex).found

Build_load ==
    /\ bld.phase = "idle" /\ unb.phase = "idle"
    /\ bld' = LoadStep(bld, disk)
    /\ UNCHANGED <<disk, unb, rt, pure, sy, pr>>

Resolve_Import ==
    /\ bld.phase = "resolving"
    /\ HasNextImport(bld)
    /\ bld' = ImportStep(bld, disk)
    /\ UNCHANGED <<disk, unb, rt, pure, sy, pr>>

Resolve_Return ==
    /\ bld.phase = "resolving"
    /\ ~HasNextImport(bld)
    /\ bld' = ReturnStep(bld)
    /\ UNCHANGED <<disk, unb, rt, pure, sy, pr>>

\* resolveImports(entry) run to its return
RECURSIVE ResolveRun(_, _)
ResolveRun(b, d) ==
    IF b.phase # "resolving" THEN b
    ELSE IF HasNextImport(b) THEN ResolveRun(ImportStep(b, d), d)
    ELSE ResolveRun(ReturnStep(b), d)

\* BUNDLE_HEADER + resolveImports(id) for the entry of a source tree
BuildOutput(tree) ==
    ResolveRun(LoadStep(BuildStart(tree), DiskOf(tree)), DiskOf(tree)).out

\* the bundler writes the artifact to dist/
Build_emit ==
    /\ bld.phase = "loaded"
    /\ disk' = writeFileSafe(disk, OUTPUT_BUNDLE_PATH, bld.out)
    /\ bld' = [bld EXCEPT !.phase = "emitted"]
    /\ UNCHANGED <<unb, rt, pure, sy, pr>>

\* the built bundle is placed in input/ (README, round-trip flow)
User_placeBundle ==
    /\ bld.phase = "emitted"
    /\ disk' = writeFileSafe(disk, INPUT_BUNDLE_PATH, readFileSync(disk, OUTPUT_BUNDLE_PATH))
    /\ bld' = [bld EXCEPT !.phase = "placed"]
    /\ UNCHANGED <<unb, rt, pure, sy, pr>>

\* unbundle(): the checks before parsing
Unbundle_start ==
    /\ unb.phase = "idle"
    /\ bld.phase = "placed" \/ (bld.phase = "idle" /\ bld.tree = NoTree)
    /\ unb' =
         IF ~existsSync(disk, INPUT_BUNDLE_PATH)
         THEN [unb EXCEPT !.phase = "failed", !.exit = 1,
                          !.message = "Bundle not found"]
         ELSE LET bundleContent == readFileSync(disk, INPUT_BUNDLE_PATH)
                  hasMarkers == Includes(bundleContent, FILE_MARKER_TOKEN)
              IN IF ~hasMarkers
                 THEN [unb EXCEPT !.phase = "failed", !.exit = 1,
                                  !.bundle = bundleContent,
                                  !.message = "No file markers found in bundle!"]
                 ELSE [unb EXCEPT !.phase = "parse", !.bundle = bundleContent]
    /\ UNCHANGED <<disk, bld, rt, pure, sy, pr>>

Unbundle_parse ==
    /\ unb.phase = "parse"
    /\ unb' = [unb EXCEPT !.phase = "write", !.files = parseByMarkers(unb.bundle)]
    /\ UNCHANGED <<disk, bld, rt, pure, sy, pr>>

\* one iteration of the loop over the parsed files
Unbundle_writeFile ==
    /\ unb.phase = "write" /\ unb.k < Len(unb.files)
    /\ LET filePath == unb.files[unb.k + 1].path
           content == unb.files[unb.k + 1].val
           fullPath == join(ROOT_DIR, filePath)
       IN /\ disk' = writeFileSafe(disk, fullPath, content)
          /\ unb' = [unb EXCEPT
                !.k = @ + 1,
                !.importPaths =
                    IF filePath # MAIN_CSS /\ StartsWith(filePath, SRC_SLASH)
                    THEN Append(@, <<".", "/">> \o RemoveFirst(filePath, SRC_SLASH))
                    ELSE @,
                !.anchorCount =
                    IF StartsWith(filePath, <<"src", "/", "by-css-anchor", "/">>)
                    THEN @ + 1 ELSE @,
                !.updatedCount = @ + 1,
                !.written = Append(@, fullPath)]
    /\ UNCHANGED <<bld, rt, pure, sy, pr>>

\* after the loop: main.css is generated from the collected paths
Unbundle_manifest ==
    /\ unb.phase = "write" /\ unb.k = Len(unb.files)
    /\ IF unb.importPaths # <<>>
       THEN /\ disk' = writeFileSafe(disk, join(ROOT_DIR, MAIN_CSS),
                                     mainCssContent(unb.importPaths))
            /\ unb' = [unb EXCEPT !.phase = "done",
                                  !.written = Append(@, join(ROOT_DIR, MAIN_CSS)),
                                  !.message = "Unbundle complete!"]
       ELSE /\ disk' = disk
            /\ unb' = [unb EXCEPT !.phase = "done", !.message = "Unbundle complete!"]
    /\ UNCHANGED <<bld, rt, pure, sy, pr>>

\* build alone: resolveImports from the entry file of a source tree
InitBuild ==
    /\ pr = IdlePr /\ rt = IdleRt /\ pure = IdlePure /\ sy = IdleSy
    /\ unb = UnbundleStart
    /\ StartFromTree

NextBuild ==
    \/ Build_load
    \/ Resolve_Import
    \/ Resolve_Return

SpecBuild == InitBuild /\ [][NextBuild]_vars

Next ==
    \/ Build_load
    \/ Resolve_Import
    \/ Resolve_Return
    \/ Build_emit
    \/ User_placeBundle
    \/ Unbundle_start
    \/ Unbundle_parse
    \/ Unbundle_writeFile
    \/ Unbundle_manifest

Spec == Init /\ [][Next]_vars

-----------------------------------------------------------------------------
(* Manifest sync: scripts/lib/manifest-sync.ts and scripts/sync.ts         *)

MaxManifestLines == 2

MAIN_CSS_PATH == join(SRC_DIR, <<"main", ".css">>)
ANCHORS_DIR == join(SRC_DIR, <<"by-css-anchor">>)
COMMON_DIR == join(SRC_DIR, <<"common">>)

\* the files that may stand under src/ beside the manifest, as directory
\* and name, in the order readdirSync lists names: two style sheets and a
\* text file in common/, a style sheet in by-css-anchor/, a style sheet
\* in pages/, a directory getSourceFiles does not read, and a style sheet
\* in common/ whose name holds a quote character
SyncCandidates ==
    << [dir |-> <<"common">>, name |-> <<"a", ".css">>],
       [dir |-> <<"common">>, name |-> <<"g", ".css">>],
       [dir |-> <<"common">>, name |-> <<"it", Q1, "s", ".css">>],
       [dir |-> <<"common">>, name |-> <<"notes", ".txt">>],
       [dir |-> <<"by-css-anchor">>, name |-> <<"h", ".css">>],
       [dir |-> <<"pages">>, name |-> <<"b", ".css">>] >>

CandidatePath(c) == join(join(SRC_DIR, c.dir), c.name)

\* the import paths a manifest line may hold: files that may exist, and
\* one that never does
ImportMenu ==
    { <<".", "/", "common", "/", "a", ".css">>,
      <<".", "/", "by-css-anchor", "/", "h", ".css">>,
      <<".", "/", "pages", "/", "b", ".css">>,
      <<".", "/", "common", "/", "gone", ".css">> }

ManifestHeader == <<"/*", SP, "CSS", SP, "Manifest", SP, "*/">>

ImportLine(imp) == <<"@import", SP, Q2>> \o imp \o <<Q2, ";">>

ManifestLineMenu == {ImportLine(imp) : imp \in ImportMenu} \cup {ManifestHeader}

\* what follows the last line of a manifest
ManifestTails == {<<NL>>, <<>>, <<NL, NL>>}

ManifestInputs ==
    {Join(ls, <<NL>>) \o t : ls \in SeqsOf(ManifestLineMenu, 0, MaxManifestLines),
                             t \in ManifestTails}

\* the disk with the given candidate files and manifest
SyncDisk(present, manifest) ==
    LET paths == {CandidatePath(SyncCandidates[k]) : k \in present}
                    \cup (IF manifest = Absent THEN {} ELSE {MAIN_CSS_PATH})
    IN [p \in paths |-> IF p = MAIN_CSS_PATH THEN manifest ELSE <<"x{}", NL>>]

\* String.prototype.endsWith for a file name and an extension
EndsWith(s, e) == s # <<>> /\ s[Len(s)] = e

\* readdirSync(dir): the names of the entries of a directory
readdirSync(d, dir) ==
    LET here == SelectSeq(SyncCandidates,
                    LAMBDA c : join(SRC_DIR, c.dir) = dir /\ CandidatePath(c) \in DOMAIN d)
    IN [k \in 1..Len(here) |-> here[k].name]

\* existsSync(dir) for a directory: it has an entry
dirExists(d, dir) == readdirSync(d, dir) # <<>>

getCssFiles(d, dir) ==
    IF ~dirExists(d, dir) THEN <<>>
    ELSE LET css == SelectSeq(readdirSync(d, dir), LAMBDA f : EndsWith(f, ".css"))
         IN [k \in 1..Len(css) |-> join(dir, css[k])]

getSourceFiles(d) == getCssFiles(d, COMMON_DIR) \o getCssFiles(d, ANCHORS_DIR)

\* content.matchAll(IMPORT_REGEX): the captured paths from position from
\* on.  IMPORT_REGEX is the resolver's regex without its optional
\* closing part, which no match can start in, so the captures are those
\* of ImportExec.
RECURSIVE ManifestImportsFrom(_, _)
ManifestImportsFrom(s, from) ==
    LET m == ImportExec(s, from)
    IN IF ~m.found THEN <<>> ELSE <<m.path>> \o ManifestImportsFrom(s, m.end)

parseManifestImports(d) ==
    IF ~existsSync(d, MAIN_CSS_PATH) THEN <<>>
    ELSE ManifestImportsFrom(readFileSync(d, MAIN_CSS_PATH), 0)

toImportPath(absolutePath) == <<".", "/">> \o relative(SRC_DIR, absolutePath)

toAbsolutePath(importPath) ==
    LET cleaned == IF StartsWith(importPath, <<".", "/">>)
                   THEN SubSeq(importPath, 3, Len(importPath)) ELSE importPath
    IN join(SRC_DIR, cleaned)

checkManifestSync(d) ==
    LET imports == parseManifestImports(d)
        sourceFiles == getSourceFiles(d)
        importedPaths == {toAbsolutePath(imports[k]) : k \in 1..Len(imports)}
        existingPaths == {sourceFiles[k] : k \in 1..Len(sourceFiles)}
        valid == SelectSeq(imports, LAMBDA imp : toAbsolutePath(imp) \in existingPaths)
        orphaned == SelectSeq(imports, LAMBDA imp : toAbsolutePath(imp) \notin existingPaths)
        unlisted == SelectSeq(sourceFiles, LAMBDA f : f \notin importedPaths)
        missing == [k \in 1..Len(unlisted) |-> toImportPath(unlisted[k])]
    IN [valid |-> valid, missing |-> missing, orphaned |-> orphaned,
        inSync |-> (Len(missing) = 0 /\ Len(orphaned) = 0)]

\* a mutant of generateUpdatedManifest: the manifest is written afresh
generateUpdatedManifest_afresh(d, addImports) ==
    ManifestHeader \o <<NL>>
        \o Join([k \in 1..Len(addImports) |-> ImportLine(addImports[k])], <<NL>>)
        \o <<NL>>

generateUpdatedManifest(d, addImports) ==
    LET content == IF existsSync(d, MAIN_CSS_PATH) THEN readFileSync(d, MAIN_CSS_PATH)
                   ELSE ManifestHeader \o <<NL>>
        newImports == Join([k \in 1..Len(addImports) |-> ImportLine(addImports[k])],
                           <<NL>>)
    IN TrimRight(content) \o <<NL>> \o newImports \o <<NL>>

\* a mutant of SyncWrites: missing imports are added without the flag
SyncWrites_unasked(fix, result) == Len(result.missing) > 0

\* sync(): the manifest is written
SyncWrites(fix, result) == Len(result.missing) > 0 /\ fix

\* the disk after the report of a result that is not in sync
SyncReported(d, fix, result) ==
    IF SyncWrites(fix, result)
    THEN writeFileSafe(d, join(SRC_DIR, <<"main", ".css">>),
                       generateUpdatedManifest(d, result.missing))
    ELSE d

\* the disk after one run of sync()
SyncRun(d, fix) ==
    LET syncResult == checkManifestSync(d)
    IN IF syncResult.inSync THEN d ELSE SyncReported(d, fix, syncResult)

NoSyncResult == [valid |-> <<>>, missing |-> <<>>, orphaned |-> <<>>, inSync |-> TRUE]

\* FIX_FLAG, the disk sync() started on, the result of checkManifestSync
SyncStart(fix, d) ==
    [phase |-> "idle", fix |-> fix, disk0 |-> d, result |-> NoSyncResult,
     wrote |-> FALSE]

InitSync ==
    /\ pr = IdlePr /\ bld = IdleBld /\ unb = IdleUnb /\ rt = IdleRt /\ pure = IdlePure
    /\ \E present \in SUBSET (1..Len(SyncCandidates)),
          manifest \in ManifestInputs \cup {Absent},
          fix \in BOOLEAN :
            /\ disk = SyncDisk(present, manifest)
            /\ sy = SyncStart(fix, SyncDisk(present, manifest))

\* const syncResult = checkManifestSync()
Sync_check ==
    /\ sy.phase = "idle"
    /\ sy' = [sy EXCEPT !.phase = "checked", !.result = checkManifestSync(disk)]
    /\ UNCHANGED <<disk, bld, unb, rt, pure, pr>>

\* the manifest is in sync: return
Sync_inSync ==
    /\ sy.phase = "checked" /\ sy.result.inSync
    /\ sy' = [sy EXCEPT !.phase = "done"]
    /\ UNCHANGED <<disk, bld, unb, rt, pure, pr>>

\* missing imports are reported and, with --fix, added to the manifest;
\* orphaned imports are reported
Sync_report ==
    /\ sy.phase = "checked" /\ ~sy.result.inSync
    /\ disk' = SyncReported(disk, sy.fix, sy.result)
    /\ sy' = [sy EXCEPT !.phase = "done", !.wrote = SyncWrites(sy.fix, sy.result)]
    /\ UNCHANGED <<bld, unb, rt, pure, pr>>

NextSync ==
    \/ Sync_check
    \/ Sync_inSync
    \/ Sync_report

SpecSync == InitSync /\ [][NextSync]_vars

-----------------------------------------------------------------------------
(* Empty-node pruner: cleanCss, scripts/plugins/remove-empty-css.ts        *)

MaxPruneNodes == 3

\* A node of the parse tree postcss.parse returns for the bundle.
\*   type      "decl", "comment", "rule", "atrule"
\*   text      comment.text (comments)
\*   selector  rule.selector (rules)
\*   name      atRule.name (at-rules)
\*   nodes     the children of a rule or at-rule (none: no block)
\*   id        the position of a top-level node in the input, 0 below
Decl ==
    [type |-> "decl", text |-> <<>>, selector |-> <<>>, name |-> "",
     nodes |-> <<>>, id |-> 0]
PComment(text) ==
    [type |-> "comment", text |-> text, selector |-> <<>>, name |-> "",
     nodes |-> <<>>, id |-> 0]
PRule(selector, nodes) ==
    [type |-> "rule", text |-> <<>>, selector |-> selector, name |-> "",
     nodes |-> nodes, id |-> 0]
PAtRule(name, nodes) ==
    [type |-> "atrule", text |-> <<>>, selector |-> <<>>, name |-> name,
     nodes |-> nodes, id |-> 0]

\* comment.text of a file header: a doc comment of several lines that
\* declares the anchor of its file
FileHeaderText(declared) ==
    <<"*", NL, SP, "*", SP, "CSS Anchor:", SP>> \o declared \o <<NL, SP>>

SelHeaderThenFooter ==
    <<ANCHOR_KEY, Q2, "header", Q2, "]", SP, ANCHOR_KEY, Q2, "footer", Q2, "]">>

PruneMenu ==
    { PRule(SelHeader, <<Decl>>),
      PRule(SelFooter, <<Decl>>),
      PRule(SelHeaderThenFooter, <<Decl>>),
      PRule(SelPlain, <<Decl, PComment(<<"todo">>)>>),
      PRule(SelHeader, <<PComment(<<"todo">>)>>),
      PAtRule("media", <<PRule(SelHeader, <<>>)>>),
      PAtRule("media", <<PAtRule("supports", <<PRule(SelPlain, <<>>)>>)>>),
      PAtRule("media", <<PRule(SelFooter, <<Decl>>), PRule(SelPlain, <<>>)>>),
      PAtRule("import", <<>>),
      PComment(FileHeaderText(<<Q2, "header", Q2>>)),
      PComment(FileHeaderText(<<Q2, "footer", Q2>>)),
      PComment(FileHeaderText(<<"header">>)),
      PComment(CommentText(createFileMarker(join(ROOT_DIR, PathA)))) }

\* root.nodes: the top-level nodes, each with its position
WithIds(nodes) == [k \in 1..Len(nodes) |-> [nodes[k] EXCEPT !.id = k]]

isFileHeader(node) ==
    /\ node.type = "comment"
    /\ Includes(node.text, <<NL>>)
    /\ Includes(node.text, <<"CSS Anchor:">>)

\* index of the first double quote of s at or after position i, 0 when none
RECURSIVE NextDoubleQuote(_, _)
NextDoubleQuote(s, i) ==
    IF i > Len(s) THEN 0
    ELSE IF s[i] = Q2 THEN i ELSE NextDoubleQuote(s, i + 1)

\* comment.text.match(/CSS Anchor:\s*"([^"]+)"/), tried from position i on
RECURSIVE HeaderAnchorFrom(_, _)
HeaderAnchorFrom(text, i) ==
    IF i > Len(text) THEN Null
    ELSE LET q == SkipWs(text, i + 1)
             e == NextDoubleQuote(text, q + 1)
         IN IF text[i] = "CSS Anchor:" /\ q <= Len(text) /\ text[q] = Q2 /\ e > q + 1
            THEN SubSeq(text, q + 1, e - 1)
            ELSE HeaderAnchorFrom(text, i + 1)

getHeaderAnchor(comment) == HeaderAnchorFrom(comment.text, 1)

\* rule.selector.match(/data-css-anchor="([^"]+)"/), tried from position i
RECURSIVE RuleAnchorFrom(_, _)
RuleAnchorFrom(selector, i) ==
    IF i > Len(selector) THEN Null
    ELSE LET e == NextDoubleQuote(selector, i + 2)
         IN IF selector[i] = ANCHOR_KEY /\ i + 1 <= Len(selector)
               /\ selector[i + 1] = Q2 /\ e > i + 2
            THEN SubSeq(selector, i + 2, e - 1)
            ELSE RuleAnchorFrom(selector, i + 1)

getRuleAnchor(rule) == RuleAnchorFrom(rule.selector, 1)

hasDeclarations(rule) == \E k \in 1..Len(rule.nodes) : rule.nodes[k].type = "decl"

hasContent(atRule) ==
    \E k \in 1..Len(atRule.nodes) : atRule.nodes[k].type \in {"rule", "atrule", "decl"}

\* first pass: root.walkRules removes every rule without a declaration,
\* at any depth
RECURSIVE RemoveEmptyRules(_)
RemoveEmptyRules(nodes) ==
    IF nodes = <<>> THEN <<>>
    ELSE LET node == Head(nodes)
         IN (IF node.type = "rule" /\ ~hasDeclarations(node) THEN <<>>
             ELSE <<[node EXCEPT !.nodes = RemoveEmptyRules(@)]>>)
            \o RemoveEmptyRules(Tail(nodes))

\* second pass: root.walkAtRules calls back on an at-rule before it
\* descends into it, so an at-rule is tested with the children it has
\* before its own nested at-rules are visited
RECURSIVE RemoveEmptyAtRules(_)
RemoveEmptyAtRules(nodes) ==
    IF nodes = <<>> THEN <<>>
    ELSE LET node == Head(nodes)
         IN (IF node.type = "atrule" /\ node.name \notin {"import", "charset"}
                /\ ~hasContent(node)
             THEN <<>>
             ELSE <<[node EXCEPT !.nodes = RemoveEmptyAtRules(@)]>>)
            \o RemoveEmptyAtRules(Tail(nodes))

\* the position in the live root of the node with this id (0: removed)
PositionOf(root, id) ==
    IF \E k \in 1..Len(root) : root[k].id = id
    THEN CHOOSE k \in 1..Len(root) : root[k].id = id
    ELSE 0

\* the while loop over node.next(): the first rule among the siblings from
\* position k on that stands before any file header (Null: none)
RECURSIVE NextRuleFrom(_, _)
NextRuleFrom(root, k) ==
    IF k > Len(root) THEN Null
    ELSE IF root[k].type = "rule" THEN root[k]
    ELSE IF isFileHeader(root[k]) THEN Null
    ELSE NextRuleFrom(root, k + 1)

\* the body of the third pass's loop for one node of the snapshot: the
\* live root after it
HeaderStep(root, node) ==
    IF ~isFileHeader(node) THEN root
    ELSE LET headerAnchor == getHeaderAnchor(node)
             nextRule == NextRuleFrom(root, PositionOf(root, node.id) + 1)
             without == SelectSeq(root, LAMBDA n : n.id # node.id)
         IN IF headerAnchor = Null THEN without
            ELSE IF nextRule = Null THEN without
            ELSE IF getRuleAnchor(nextRule) # headerAnchor THEN without
            ELSE root

\* third pass: for (const node of [...root.nodes])
RECURSIVE RemoveOrphanHeaders(_, _)
RemoveOrphanHeaders(root, snapshot) ==
    IF snapshot = <<>> THEN root
    ELSE RemoveOrphanHeaders(HeaderStep(root, Head(snapshot)), Tail(snapshot))

\* fourth pass: root.walkComments removes every comment of one line, at
\* any depth
RECURSIVE RemoveInlineComments(_)
RemoveInlineComments(nodes) ==
    IF nodes = <<>> THEN <<>>
    ELSE LET node == Head(nodes)
         IN (IF node.type = "comment" /\ ~Includes(node.text, <<NL>>) THEN <<>>
             ELSE <<[node EXCEPT !.nodes = RemoveInlineComments(@)]>>)
            \o RemoveInlineComments(Tail(nodes))

\* postcss.parse(css) has returned the tree
PruneStart(nodes) ==
    [phase |-> "parsed", input |-> WithIds(nodes), root |-> WithIds(nodes),
     scanned |-> <<>>]

InitPrune ==
    /\ disk = NoDisk /\ bld = IdleBld /\ unb = IdleUnb /\ rt = IdleRt
    /\ pure = IdlePure /\ sy = IdleSy
    /\ \E nodes \in SeqsOf(PruneMenu, 0, MaxPruneNodes) : pr = PruneStart(nodes)

Prune_walkRules ==
    /\ pr.phase = "parsed"
    /\ pr' = [pr EXCEPT !.phase = "rules", !.root = RemoveEmptyRules(@)]
    /\ UNCHANGED <<disk, bld, unb, rt, pure, sy>>

Prune_walkAtRules ==
    /\ pr.phase = "rules"
    /\ pr' = [pr EXCEPT !.phase = "atrules", !.root = RemoveEmptyAtRules(@),
                        !.scanned = RemoveEmptyAtRules(pr.root)]
    /\ UNCHANGED <<disk, bld, unb, rt, pure, sy>>

Prune_headers ==
    /\ pr.phase = "atrules"
    /\ pr' = [pr EXCEPT !.phase = "headers", !.root = RemoveOrphanHeaders(@, @)]
    /\ UNCHANGED <<disk, bld, unb, rt, pure, sy>>

\* the fourth pass and return root.toString()
Prune_walkComments ==
    /\ pr.phase = "headers"
    /\ pr' = [pr EXCEPT !.phase = "done", !.root = RemoveInlineComments(@)]
    /\ UNCHANGED <<disk, bld, unb, rt, pure, sy>>

NextPrune ==
    \/ Prune_walkRules
    \/ Prune_walkAtRules
    \/ Prune_headers
    \/ Prune_walkComments

SpecPrune == InitPrune /\ [][NextPrune]_vars

-----------------------------------------------------------------------------
(* Claims about the marker codec and the anchor union rule (SpecPure)      *)

\* the project-root-relative path of an absolute path under the root,
\* written with forward slashes
ExpectedRel(p) == BackslashToSlash(SubSeq(p, Len(ROOT_DIR) + 2, Len(p)))

\* the whitespace-separated tokens of a comment's body
CommentWords(comment) == SplitWs(Trim(StripDelims(comment)))

\* C5: decoding the marker that encodes a path under the project root
\* returns that path's root-relative form with forward slashes, for every
\* path.
C5_CodecRoundTrip ==
    (pure.kind = "path" /\ "plugin" \in pure.done)
        => pure.viaPlugin = ExpectedRel(pure.in)

\* C6: every marker createFileMarker emits is recognised by both decoders
\* of the unbundle side (the plugin's parseFileMarker and css-router's
\* parseFileMarker on the comment node's text), with the same path.
C6_DecodersAgree ==
    (pure.kind = "path" /\ {"plugin", "router"} \subseteq pure.done)
        => /\ pure.viaPlugin # Null
           /\ pure.viaRouter # Null
           /\ pure.viaPlugin = pure.viaRouter

\* C7, first part: a comment without the keyword is rejected.
C7_RejectsWithoutKeyword ==
    (pure.kind = "comment" /\ "plugin" \in pure.done
        /\ ~Includes(pure.in, FILE_MARKER_TOKEN))
        => pure.viaPlugin = Null

\* C7, second part: a path is returned only when it is the non-empty token
\* that immediately follows the keyword.
C7_PathFollowsKeyword ==
    (pure.kind = "comment" /\ "plugin" \in pure.done /\ pure.viaPlugin # Null)
        => LET w == CommentWords(pure.in)
           IN \E i \in 1..(Len(w) - 1) :
                 w[i] = FILE_MARKER_TOKEN /\ w[i + 1] = pure.viaPlugin

\* C7, third part: a comment of the form keyword-then-path decodes to that
\* path.
C7_KeywordThenPathDecodes ==
    (pure.kind = "comment" /\ "plugin" \in pure.done)
        => LET w == CommentWords(pure.in)
           IN (Len(w) = 2 /\ w[1] = FILE_MARKER_TOKEN /\ w[2] # <<>>)
                 => pure.viaPlugin = w[2]

\* C7: the decoder rejects every comment without the marker keyword,
\* returns a path only when a non-empty path token immediately follows the
\* keyword, and decodes a comment of the form keyword-then-path to that
\* path.
C7_DecodeContract ==
    /\ C7_RejectsWithoutKeyword
    /\ C7_PathFollowsKeyword
    /\ C7_KeywordThenPathDecodes

\* the union of the structural-attribute values of a selector list
AnchorUnion(selectors) ==
    UNION {extractAnchors(selectors[i]) : i \in 1..Len(selectors)}

\* C8: routeSelectors returns the widget route of v exactly when the union
\* of the anchor values over all selectors is {v}, and the global route
\* when the union is empty or has two or more members.
C8_AnchorUnionRule ==
    (pure.kind = "selectors" /\ "route" \in pure.done)
        => LET u == AnchorUnion(pure.in)
           IN /\ \A v \in u : (u = {v}) => pure.route = WidgetRoute(v)
              /\ Cardinality(u) # 1 => pure.route = GlobalRoute
              /\ pure.route.type = "widget" => u = {pure.route.widgetName}

\* a rule whose two selectors name the same value twice was routed to
\* that value's widget file
C8_Witness ==
    /\ pure.kind = "selectors" /\ "route" \in pure.done
    /\ Len(pure.in) = 2
    /\ extractAnchors(pure.in[1]) = {<<"header">>}
    /\ extractAnchors(pure.in[2]) = {<<"header">>}
    /\ pure.route = WidgetRoute(<<"header">>)

-----------------------------------------------------------------------------
(* Claims about routeBundle (SpecRoute)                                    *)

\* a node routeBundle consumes as a marker
IsMarkerNode(node) ==
    ~node.raises /\ node.type = "comment" /\ parseFileMarker_router(node.text) # Null

\* a node routeBundle appends to some destination: a rule, an at-rule or
\* an ordinary comment that is processed without raising
IsContentNode(node) ==
    /\ ~node.raises
    /\ ~IsMarkerNode(node)
    /\ ~(node.type = "comment" /\ IsBanner(node.text))

\* the index of the last marker before position k (0: none)
RECURSIVE LastMarkerIndex(_, _)
LastMarkerIndex(nodes, k) ==
    IF k <= 1 THEN 0
    ELSE IF IsMarkerNode(nodes[k - 1]) THEN k - 1
         ELSE LastMarkerIndex(nodes, k - 1)

MarkerDest(nodes, k) ==
    parseFileMarker_router(nodes[LastMarkerIndex(nodes, k)].text)

\* the texts of the content nodes among the first n that stand after a
\* marker whose path is f, in document order
RECURSIVE MarkedTexts(_, _, _)
MarkedTexts(nodes, n, f) ==
    IF n = 0 THEN <<>>
    ELSE MarkedTexts(nodes, n - 1, f) \o
         (IF IsContentNode(nodes[n]) /\ LastMarkerIndex(nodes, n) # 0
             /\ MarkerDest(nodes, n) = f
          THEN <<nodeToString(nodes[n])>> ELSE <<>>)

IsSuffix(t, s) == Len(t) <= Len(s) /\ SubSeq(s, Len(s) - Len(t) + 1, Len(s)) = t

RECURSIVE TotalEntries(_)
TotalEntries(files) ==
    IF files = <<>> THEN 0 ELSE Len(Head(files).val) + TotalEntries(Tail(files))

ContentCount(nodes, n) == Cardinality({k \in 1..n : IsContentNode(nodes[k])})

RoutePaths ==
    {rt.files[k].path : k \in 1..Len(rt.files)}
        \cup {parseFileMarker_router(rt.nodes[k].text) : k \in 1..Len(rt.nodes)}

\* C4: once a marker has set the current destination, every following
\* rule, at-rule and ordinary comment is appended to that marker's
\* destination, whatever anchors it carries; nothing that follows a marker
\* is placed anywhere else, so anchor routing serves only the nodes before
\* the first marker.
C4_MarkerPrecedence ==
    (rt.phase \in {"route", "done"})
        => /\ \A f \in RoutePaths \ {Null} :
                 IsSuffix(MarkedTexts(rt.nodes, rt.i, f), MapGet(rt.files, f))
           /\ TotalEntries(rt.files) = ContentCount(rt.nodes, rt.i)

\* a rule tagged with the header anchor stands after a marker for another
\* file and has been appended to the marker's file
C4_Witness ==
    /\ rt.phase = "done" /\ ~rt.broken
    /\ \E k \in 1..Len(rt.nodes) :
          /\ rt.nodes[k].type = "rule" /\ ~rt.nodes[k].raises
          /\ LastMarkerIndex(rt.nodes, k) # 0
          /\ AnchorDest(rt.nodes[k]) = getFilePath(WidgetRoute(<<"header">>))
          /\ MarkerDest(rt.nodes, k) # AnchorDest(rt.nodes[k])
          /\ \E m \in 1..Len(MapGet(rt.files, MarkerDest(rt.nodes, k))) :
                MapGet(rt.files, MarkerDest(rt.nodes, k))[m] = nodeToString(rt.nodes[k])
          /\ ~HasKey(rt.files, AnchorDest(rt.nodes[k]))

-----------------------------------------------------------------------------
(* Claims about build and marker-mode unbundle (Spec)                      *)

Built == bld.phase \in {"loaded", "emitted", "placed"}

Present(tree) == {id \in FileIds : tree[id] # Absent}

\* the import directives of a file, as the ids they name, in order
ImportsOf(tree, id) ==
    IF tree[id] = Absent THEN <<>>
    ELSE LET sh == SelectSeq(tree[id], IsImportSym)
         IN [k \in 1..Len(sh) |-> ImportTarget(sh[k])]

Targets(tree, id) == {ImportsOf(tree, id)[k] : k \in 1..Len(ImportsOf(tree, id))}

\* the files reached from id by one or more imports
Reach1(tree, id) == Targets(tree, id)
Reach2(tree, id) == Reach1(tree, id) \cup UNION {Targets(tree, x) : x \in Reach1(tree, id)}
ReachPlus(tree, id) == Reach2(tree, id) \cup UNION {Targets(tree, x) : x \in Reach2(tree, id)}

\* files the resolver reads: the entry and what it reaches
Reached(tree) == {"main"} \cup ReachPlus(tree, "main")

\* a file that build reads imports itself, directly or transitively
HasCycle(tree) == \E id \in Reached(tree) : id \in ReachPlus(tree, id)

\* the number of occurrences of the text t in s
Occurrences(s, t) ==
    Cardinality({i \in 1..Len(s) :
        /\ s[i] = t[1]
        /\ i + Len(t) - 1 <= Len(s)
        /\ SubSeq(s, i, i + Len(t) - 1) = t})

CircCount(out, id) == Occurrences(out, CircularImport(PathOf(id)))

\* the number of import directives that name `id` in the files build read
ImportCount(tree, id) ==
    LET n(f) == Len(SelectSeq(ImportsOf(tree, f), LAMBDA x : x = id))
    IN n("main") * (IF "main" \in Reached(tree) \cap Present(tree) THEN 1 ELSE 0)
       + n("a") * (IF "a" \in Reached(tree) \cap Present(tree) THEN 1 ELSE 0)
       + n("b") * (IF "b" \in Reached(tree) \cap Present(tree) THEN 1 ELSE 0)

TotalImports(tree) ==
    Len(ImportsOf(tree, "main")) + Len(ImportsOf(tree, "a")) + Len(ImportsOf(tree, "b"))

\* a call of resolveImports is in its loop, where the guards of
\* Resolve_Import (the regex matches) and Resolve_Return (it does not) are
\* complementary: one of the two steps can be taken
ResolveCanStep ==
    /\ bld.stack # <<>>
    /\ Top(bld.stack).lastIndex <= Len(Top(bld.stack).content)
    /\ \/ ImportExec(Top(bld.stack).content, Top(bld.stack).lastIndex).found
       \/ ~ImportExec(Top(bld.stack).content, Top(bld.stack).lastIndex).found

\* C2 as claimed: when a file imports itself directly or transitively,
\* the output holds exactly one cycle diagnostic for the repeated path.
C2_ExactlyOneDiagnostic ==
    (Built /\ HasCycle(bld.tree))
        => /\ \A id \in FileIds : CircCount(bld.out, id) <= 1
           /\ \E id \in FileIds : CircCount(bld.out, id) = 1

\* C2 as amended: resolveImports never loops and never stops short (its
\* steps number at most one per import directive and one per file read,
\* and a step is possible until it has returned), and the output holds
\* one cycle diagnostic for every import directive that names a path
\* already visited: n - 1 for a path named by n directives of the files
\* read (n for the entry), so at least one when a file imports itself.
C2_CycleTermination ==
    /\ bld.phase # "idle" =>
          bld.steps <= 1 + TotalImports(bld.tree) + Cardinality(Present(bld.tree))
    /\ bld.phase = "resolving" => ResolveCanStep
    /\ Built =>
          /\ \A id \in FileIds :
                CircCount(bld.out, id) =
                    IF id = "main" THEN ImportCount(bld.tree, id)
                    ELSE IF ImportCount(bld.tree, id) = 0 THEN 0
                         ELSE ImportCount(bld.tree, id) - 1
          /\ HasCycle(bld.tree) => \E id \in FileIds : CircCount(bld.out, id) >= 1

\* build has returned for a tree in which a imports b and b imports a:
\* one diagnostic, for a
C2_Witness ==
    /\ Built
    /\ "b" \in Targets(bld.tree, "a") /\ "a" \in Targets(bld.tree, "b")
    /\ Targets(bld.tree, "main") = {"a"}
    /\ CircCount(bld.out, "a") = 1
    /\ CircCount(bld.out, "b") = 0

\* a text without its whitespace
NonWs(s) == SelectSeq(s, LAMBDA x : ~IsWs(x))

Range(f) == {f[i] : i \in DOMAIN f}

\* the files whose own rules and comments hold the atom x
OwnersOf(x) ==
    {id \in FileIds : x = NoteNames[id] \/ x \in Range(RuleNames[id])}

\* the path of the nearest marker that precedes position p (1-based) of
\* the bundle; Null when no marker precedes it
RECURSIVE ScopeFrom(_, _, _)
ScopeFrom(pos, p, i) ==
    IF i = 0 THEN Null
    ELSE IF pos[i].end <= p - 1 THEN pos[i].path
    ELSE ScopeFrom(pos, p, i - 1)

ScopeAt(bundle, p) ==
    LET pos == MarkerPositions(bundle, 1) IN ScopeFrom(pos, p, Len(pos))

\* C3 as claimed: in the bundle build produces, every rule or comment of a
\* source file lies between a marker naming that file and the next marker.
C3_MarkerScope ==
    Built =>
        \A p \in 1..Len(bld.out) : \A id \in OwnersOf(bld.out[p]) :
            ScopeAt(bld.out, p) = ExpectedRel(PathOf(id))

\* the paths the @import directives of a manifest resolve to
RECURSIVE ImportPathsFrom(_, _)
ImportPathsFrom(s, from) ==
    LET m == ImportExec(s, from)
    IN IF ~m.found THEN {}
       ELSE {resolve(SRC_DIR, m.path)} \cup ImportPathsFrom(s, m.end)

\* a source tree: the entry exists, every import names an existing file,
\* no file imports itself directly or transitively, and every other file
\* is imported by exactly one directive
TreeShaped(tree) ==
    /\ "main" \in Present(tree)
    /\ \A id \in Present(tree) :
          /\ Targets(tree, id) \subseteq Present(tree)
          /\ id \notin ReachPlus(tree, id)
    /\ \A id \in Present(tree) \ {"main"} :
          Len(SelectSeq(ImportsOf(tree, "main") \o ImportsOf(tree, "a")
                            \o ImportsOf(tree, "b"), LAMBDA x : x = id)) = 1

\* C1 as claimed: build, then the bundle placed in input/, then
\* marker-mode unbundle of a source tree without import cycles writes
\* exactly the original non-entry files, each equal to its original up to
\* whitespace, and a manifest that imports exactly those files.
C1_RoundTrip ==
    (unb.phase = "done" /\ bld.phase = "placed" /\ TreeShaped(bld.tree)) =>
        LET others == Present(bld.tree) \ {"main"}
        IN /\ Range(unb.written) \ {ENTRY_FILE} = {PathOf(id) : id \in others}
           /\ \A id \in others :
                 NonWs(readFileSync(disk, PathOf(id))) = NonWs(Render(id, bld.tree[id]))
           /\ ImportPathsFrom(readFileSync(disk, ENTRY_FILE), 0)
                 = {PathOf(id) : id \in others}

\* C9 as claimed: unbundle of a bundle in which no marker decodes ends
\* with the explicit failure "No file markers found" and writes no file.
C9_NoMarkersFails ==
    (/\ unb.phase \in {"done", "failed"}
     /\ unb.message # "Bundle not found"
     /\ MarkerPositions(unb.bundle, 1) = <<>>)
        => /\ unb.phase = "failed"
           /\ unb.exit = 1
           /\ unb.message = "No file markers found in bundle!"
           /\ unb.written = <<>>

\* the segments of the bundle that stand under a marker naming path, one
\* after the other in bundle order
RECURSIVE SegmentsOf(_, _, _, _)
SegmentsOf(bundle, pos, path, i) ==
    IF i > Len(pos) THEN <<>>
    ELSE (IF pos[i].path = path THEN MarkerContent(bundle, pos, i) ELSE <<>>)
            \o SegmentsOf(bundle, pos, path, i + 1)

\* C10 as claimed: after unbundle every non-entry file named by a marker
\* holds all segments under the markers naming it, concatenated in bundle
\* order.
C10_SegmentsConcatenated ==
    unb.phase = "done" =>
        LET pos == MarkerPositions(unb.bundle, 1)
        IN \A i \in 1..Len(pos) :
              pos[i].path # MAIN_CSS =>
                 NonWs(readFileSync(disk, join(ROOT_DIR, pos[i].path)))
                    = NonWs(SegmentsOf(unb.bundle, pos, pos[i].path, 1))

-----------------------------------------------------------------------------
(* Claims about the regenerated manifest (Spec)                            *)

\* the distinct paths of a list of marker positions, in order of first
\* occurrence
RECURSIVE DistinctPaths(_, _)
DistinctPaths(pos, seen) ==
    IF pos = <<>> THEN <<>>
    ELSE IF Head(pos).path \in seen THEN DistinctPaths(Tail(pos), seen)
    ELSE <<Head(pos).path>> \o DistinctPaths(Tail(pos), seen \cup {Head(pos).path})

\* a destination path written relative to the manifest's location
ManifestRef(path) ==
    LET r == relative(SRC_DIR, join(ROOT_DIR, path))
    IN IF Head(r) = ".." THEN r ELSE <<".", "/">> \o r

\* the destinations the manifest has to import: the distinct marker paths
\* other than the manifest's own
ManifestDestinations(bundle) ==
    SelectSeq(DistinctPaths(MarkerPositions(bundle, 1), {}), LAMBDA p : p # MAIN_CSS)

\* C11 as claimed: after marker-mode unbundle the manifest consists solely
\* of one import statement for each distinct marker path other than the
\* manifest's own, in order of first occurrence, each written relative to
\* the manifest's location; none is omitted and none appears twice.
C11_ManifestRegeneration ==
    (unb.phase = "done" /\ ManifestDestinations(unb.bundle) # <<>>) =>
        /\ existsSync(disk, ENTRY_FILE)
        /\ readFileSync(disk, ENTRY_FILE) =
              mainCssContent([k \in 1..Len(ManifestDestinations(unb.bundle)) |->
                                ManifestRef(ManifestDestinations(unb.bundle)[k])])

\* the same for bundles whose markers all name files under src/
C11_ManifestRegenerationUnderSrc ==
    (/\ unb.phase = "done" /\ ManifestDestinations(unb.bundle) # <<>>
     /\ \A k \in 1..Len(ManifestDestinations(unb.bundle)) :
           StartsWith(ManifestDestinations(unb.bundle)[k], SRC_SLASH))
        => /\ existsSync(disk, ENTRY_FILE)
           /\ readFileSync(disk, ENTRY_FILE) =
                 mainCssContent([k \in 1..Len(ManifestDestinations(unb.bundle)) |->
                                   ManifestRef(ManifestDestinations(unb.bundle)[k])])

\* the manifest as it stood before unbundle started
ManifestBefore ==
    IF bld.tree["main"] = Absent THEN Absent ELSE Render("main", bld.tree["main"])

ManifestNow ==
    IF existsSync(disk, ENTRY_FILE) THEN readFileSync(disk, ENTRY_FILE) ELSE Absent

\* C12 as claimed: marker-mode unbundle never writes the content under a
\* marker for the manifest's own path into the manifest: while and after
\* unbundle runs the manifest is as it was before, or holds the import
\* statements regenerated from the collected paths.
C12_EntryNeverSegment ==
    unb.phase \in {"write", "done"} =>
        \/ ManifestNow = ManifestBefore
        \/ /\ unb.phase = "done" /\ unb.importPaths # <<>>
           /\ ManifestNow = mainCssContent(unb.importPaths)

-----------------------------------------------------------------------------
(* Claims about quarantine and banners in routeBundle (SpecRoute)          *)

RaisingTexts(nodes) ==
    LET bad == SelectSeq(nodes, LAMBDA n : n.raises)
    IN [k \in 1..Len(bad) |-> nodeToString(bad[k])]

\* the pass over the bundle without its raising nodes
WithoutRaising(nodes) ==
    RouteAll([RouteStart(SelectSeq(nodes, LAMBDA n : ~n.raises), FALSE)
                 EXCEPT !.phase = "route"])

\* C13: when the bundle parses, the pass runs to the last node; the
\* quarantine holds exactly the raw texts of the nodes whose processing
\* raised, one warning is recorded for each, and the destination files
\* are those of the same bundle without the raising nodes.
C13_QuarantineIsolation ==
    (rt.phase = "done" /\ ~rt.broken) =>
        /\ rt.i = Len(rt.nodes)
        /\ rt.quarantine = RaisingTexts(rt.nodes)
        /\ Len(rt.errors) = Len(RaisingTexts(rt.nodes))
        /\ rt.files = WithoutRaising(rt.nodes).files
        /\ rt.currentFile = WithoutRaising(rt.nodes).currentFile

\* one raising node between two rules: both rules are routed
C13_Witness ==
    /\ rt.phase = "done" /\ ~rt.broken /\ Len(rt.nodes) = 3
    /\ ~rt.nodes[1].raises /\ rt.nodes[2].raises /\ ~rt.nodes[3].raises
    /\ rt.nodes[1].type = "rule" /\ rt.nodes[3].type = "rule"
    /\ Len(rt.quarantine) = 1 /\ Len(rt.errors) = 1
    /\ TotalEntries(rt.files) = 2

\* C14: when postcss.parse rejects the bundle, routeBundle returns with
\* the whole input text as the single quarantine entry, one error
\* recorded, no destination file, and no node processed.
C14_ParseFailure ==
    (rt.phase = "done" /\ rt.broken) =>
        /\ rt.quarantine = <<CssContent(rt)>>
        /\ Len(rt.errors) = 1
        /\ rt.files = <<>>
        /\ rt.i = 0

\* a rejected bundle of several nodes has been returned
C14_Witness ==
    /\ rt.phase = "done" /\ rt.broken /\ Len(rt.nodes) >= 2
    /\ Len(rt.quarantine) = 1 /\ Len(rt.quarantine[1]) > 3

-----------------------------------------------------------------------------
(* Claims about manifest sync (SpecSync)                                   *)

SyncChecked == sy.phase \in {"checked", "done"}

\* the manifest's imports, and the file each resolves to
SyncImports == parseManifestImports(sy.disk0)
ImportedFile(imp) == resolve(SRC_DIR, imp)

\* the style sheets on disk in the two source directories
SourceFilesOnDisk ==
    {p \in DOMAIN sy.disk0 :
        dirname(p) \in {COMMON_DIR, ANCHORS_DIR} /\ EndsWith(p, ".css")}

SeqRange(q) == {q[k] : k \in 1..Len(q)}

\* C15 as claimed: valid holds exactly the imports whose resolved path
\* exists on disk, orphaned exactly those whose resolved path does not,
\* missing exactly the source files on disk that no import references,
\* and inSync is true exactly when missing and orphaned are empty.
C15_ManifestDiff ==
    SyncChecked =>
        /\ sy.result.valid =
              SelectSeq(SyncImports, LAMBDA imp : existsSync(sy.disk0, ImportedFile(imp)))
        /\ sy.result.orphaned =
              SelectSeq(SyncImports, LAMBDA imp : ~existsSync(sy.disk0, ImportedFile(imp)))
        /\ SeqRange(sy.result.missing) =
              {toImportPath(p) : p \in {q \in SourceFilesOnDisk :
                    \A k \in 1..Len(SyncImports) : ImportedFile(SyncImports[k]) # q}}
        /\ Len(sy.result.missing) = Cardinality(SeqRange(sy.result.missing))
        /\ sy.result.inSync <=> (sy.result.missing = <<>> /\ sy.result.orphaned = <<>>)

\* the same with existence taken among the style sheets of the two
\* source directories only
C15_ManifestDiffAmongSourceFiles ==
    SyncChecked =>
        /\ sy.result.valid =
              SelectSeq(SyncImports, LAMBDA imp : ImportedFile(imp) \in SourceFilesOnDisk)
        /\ sy.result.orphaned =
              SelectSeq(SyncImports, LAMBDA imp : ImportedFile(imp) \notin SourceFilesOnDisk)
        /\ SeqRange(sy.result.missing) =
              {toImportPath(p) : p \in {q \in SourceFilesOnDisk :
                    \A k \in 1..Len(SyncImports) : ImportedFile(SyncImports[k]) # q}}
        /\ Len(sy.result.missing) = Cardinality(SeqRange(sy.result.missing))
        /\ sy.result.inSync <=> (sy.result.missing = <<>> /\ sy.result.orphaned = <<>>)

\* the lines of a text that hold something
NonEmptyLines(s) == SelectSeq(SplitOn(s, NL), LAMBDA l : l # <<>>)

ImportLinesOf(imps) == [k \in 1..Len(imps) |-> ImportLine(imps[k])]

\* C16: the manifest repair writes holds every line of the previous
\* manifest, unchanged and in order, orphaned imports included, followed
\* by one import statement per missing path in the order reported; when
\* there was no manifest, the lines are the header comment and the
\* import statements.
C16_RepairAppends ==
    sy.wrote =>
        /\ Len(sy.result.missing) > 0
        /\ NonEmptyLines(readFileSync(disk, MAIN_CSS_PATH)) =
              (IF existsSync(sy.disk0, MAIN_CSS_PATH)
               THEN NonEmptyLines(readFileSync(sy.disk0, MAIN_CSS_PATH))
               ELSE <<ManifestHeader>>)
                 \o ImportLinesOf(sy.result.missing)
        /\ \A k \in 1..Len(sy.result.orphaned) :
              ImportLine(sy.result.orphaned[k])
                 \in SeqRange(NonEmptyLines(readFileSync(disk, MAIN_CSS_PATH)))

\* repair has added two imports to a manifest that holds an orphaned one
C16_Witness ==
    /\ sy.wrote
    /\ existsSync(sy.disk0, MAIN_CSS_PATH)
    /\ Len(sy.result.orphaned) = 1
    /\ Len(sy.result.missing) = 2
    /\ Len(NonEmptyLines(readFileSync(disk, MAIN_CSS_PATH))) >= 3

\* C17: sync without the fix flag leaves every file as it was, whatever
\* the diff; the manifest is written exactly when the flag is present and
\* missing is not empty, and no other file is ever written.
C17_CheckOnlyMutatesNothing ==
    /\ ~sy.fix => disk = sy.disk0
    /\ disk # sy.disk0 => (sy.fix /\ Len(sy.result.missing) > 0)
    /\ sy.phase = "done" => (sy.wrote <=> (sy.fix /\ Len(sy.result.missing) > 0))
    /\ DOMAIN disk \subseteq DOMAIN sy.disk0 \cup {MAIN_CSS_PATH}
    /\ \A p \in DOMAIN sy.disk0 \ {MAIN_CSS_PATH} : disk[p] = sy.disk0[p]

\* check-only sync has ended on a manifest with a missing and an orphaned
\* import, and nothing changed
C17_Witness ==
    /\ sy.phase = "done" /\ ~sy.fix
    /\ Len(sy.result.missing) > 0 /\ Len(sy.result.orphaned) > 0
    /\ disk = sy.disk0

-----------------------------------------------------------------------------
(* Claims about missing imports and output order (SpecBuild)               *)

\* the files some import reached by build names and the disk lacks
MissingImported(tree) == {id \in Reached(tree) : tree[id] = Absent}

\* the same source tree with every such file present and empty
WithEmptyFiles(tree) ==
    [id \in FileIds |-> IF id \in MissingImported(tree) THEN <<>> ELSE tree[id]]

\* the text s with every occurrence of t replaced by u
RECURSIVE ReplaceAll(_, _, _)
ReplaceAll(s, t, u) ==
    IF s = <<>> THEN <<>>
    ELSE IF Len(t) <= Len(s) /\ SubSeq(s, 1, Len(t)) = t
         THEN u \o ReplaceAll(SubSeq(s, Len(t) + 1, Len(s)), t, u)
         ELSE <<Head(s)>> \o ReplaceAll(Tail(s), t, u)

\* what build emits for an existing empty file
EmptyFileOutput(id) == createFileMarker(PathOf(id)) \o <<NL, NL>>

\* the output with the block of each empty file in ids replaced by the
\* diagnostic for a missing file
WithPlaceholders(out, ids) ==
    LET forA == IF "a" \in ids
                THEN ReplaceAll(out, EmptyFileOutput("a"), FileNotFound(PathOf("a")))
                ELSE out
    IN IF "b" \in ids
       THEN ReplaceAll(forA, EmptyFileOutput("b"), FileNotFound(PathOf("b")))
       ELSE forA

\* C18: an import of a file that does not exist never stops build: while
\* resolveImports runs a step is possible; the output holds one
\* "File not found" line for the file, and is otherwise, piece for piece
\* and in the same order, the output build gives when the file exists
\* and is empty, the line standing where the empty file's block would.
C18_MissingImportNonFatal ==
    /\ (bld.phase = "resolving" /\ MissingImported(bld.tree) # {}) => ResolveCanStep
    /\ Built =>
          /\ \A id \in FileIds :
                Occurrences(bld.out, FileNotFound(PathOf(id))) =
                    IF id \in MissingImported(bld.tree) THEN 1 ELSE 0
          /\ bld.out = WithPlaceholders(BuildOutput(WithEmptyFiles(bld.tree)),
                                        MissingImported(bld.tree))

\* build has returned for a manifest that imports the missing file a
\* between two rules of its own and then the existing file b
C18_Witness ==
    /\ Built
    /\ bld.tree["a"] = Absent /\ bld.tree["b"] = <<"R">>
    /\ bld.tree["main"] = <<"R", "Ia", "Ib">>
    /\ Occurrences(bld.out, FileNotFound(PathOf("a"))) = 1
    /\ Occurrences(bld.out, <<"b1{}">>) = 1

-----------------------------------------------------------------------------
(* Claims about banners (SpecRoute)                                        *)

\* the banner comments build places at the top of an artifact: the
\* resolver's bundle header and the version banner
IsBuildBanner(node) ==
    /\ node.type = "comment"
    /\ \/ node.text = CommentText(TrimRight(BUNDLE_HEADER))
       \/ StartsWith(node.text, <<"!">>)

\* C19 as claimed: no banner comment of build is ever appended to the
\* content of a destination file, whether or not a marker precedes it.
C19_BannerNeverContent ==
    \A k \in 1..Len(rt.nodes) :
        (IsBuildBanner(rt.nodes[k]) /\ ~rt.nodes[k].raises) =>
            \A f \in 1..Len(rt.files) :
                nodeToString(rt.nodes[k]) \notin SeqRange(rt.files[f].val)

\* the same for the version banner alone
C19_VersionBannerNeverContent ==
    \A k \in 1..Len(rt.nodes) :
        (rt.nodes[k].type = "comment" /\ StartsWith(rt.nodes[k].text, <<"!">>)) =>
            \A f \in 1..Len(rt.files) :
                nodeToString(rt.nodes[k]) \notin SeqRange(rt.files[f].val)

-----------------------------------------------------------------------------
(* Claims about the order of the build output (SpecBuild)                  *)

\* The rules of a source tree in pre-order: a file's parts from left to
\* right, an import expanded where it stands, the first time its file is
\* met.  The value is the rules and the set of files met.
RECURSIVE PreOrderParts(_, _, _, _)
PreOrderParts(tree, id, k, met) ==
    IF k > Len(tree[id]) THEN [rules |-> <<>>, met |-> met]
    ELSE IF tree[id][k] = "R"
    THEN LET rest == PreOrderParts(tree, id, k + 1, met)
         IN [rules |-> <<RuleNames[id][k]>> \o rest.rules, met |-> rest.met]
    ELSE IF IsImportSym(tree[id][k])
    THEN LET to == ImportTarget(tree[id][k])
             sub == IF to \in met \/ tree[to] = Absent
                    THEN [rules |-> <<>>, met |-> met \cup {to}]
                    ELSE PreOrderParts(tree, to, 1, met \cup {to})
             rest == PreOrderParts(tree, id, k + 1, sub.met)
         IN [rules |-> sub.rules \o rest.rules, met |-> rest.met]
    ELSE PreOrderParts(tree, id, k + 1, met)

PreOrder(tree) == PreOrderParts(tree, "main", 1, {"main"}).rules

IsRuleAtom(x) == \E id \in FileIds : x \in Range(RuleNames[id])

\* the rules in the output, in the order they stand there
RulesOf(out) == SelectSeq(out, IsRuleAtom)

HasComment(tree) ==
    \E id \in Present(tree) : \E k \in 1..Len(tree[id]) : tree[id][k] = "C"

\* C20: the rules stand in the output in the pre-order, left-to-right
\* order of the import graph, each import expanded at its directive: the
\* output's rules are the pre-order sequence restricted to the rules that
\* were emitted, and the whole pre-order sequence for a tree whose files
\* hold no comment.
C20_OutputOrder ==
    Built =>
        /\ RulesOf(bld.out) =
              SelectSeq(PreOrder(bld.tree), LAMBDA x : x \in Range(bld.out))
        /\ ~HasComment(bld.tree) => RulesOf(bld.out) = PreOrder(bld.tree)

\* a rule, the rule of an imported file, a rule: emitted in that order
C20_Witness ==
    /\ Built
    /\ bld.tree["main"] = <<"R", "Ia", "R">> /\ bld.tree["a"] = <<"R">>
    /\ RulesOf(bld.out) = <<"m1{}", "a1{}", "m3{}">>


-----------------------------------------------------------------------------
(* Claims about at-rules in routeBundle                                    *)

\* the node the forEach callback was last applied to
LastNode == rt.nodes[rt.i]

\* the node was processed while no marker had set a destination
Unmarked(k) == LastMarkerIndex(rt.nodes, k) = 0

\* the union of the anchor values over the rules nested in an at-rule
NestedValues(node) ==
    UNION {AnchorUnion(SplitSelectors(node.inner[j])) : j \in 1..Len(node.inner)}

WidgetFile(v) == <<"src", "/", "by-css-anchor", "/">> \o v \o <<".css">>
GlobalFile == <<"src", "/", "common", "/", "global", ".css">>

\* the destination C21 states for an at-rule without a current destination
AtRuleDestination(node) ==
    IF node.name \in {"media", "supports"} /\ Cardinality(NestedValues(node)) = 1
    THEN WidgetFile(CHOOSE v \in NestedValues(node) : TRUE)
    ELSE GlobalFile

\* the number of entries, over all destination files, equal to a text
RECURSIVE EntriesEqual(_, _)
EntriesEqual(files, text) ==
    IF files = <<>> THEN 0
    ELSE Cardinality({j \in 1..Len(Head(files).val) : Head(files).val[j] = text})
            + EntriesEqual(Tail(files), text)

\* the number of nodes among the first n appended as content with a text
TextCount(nodes, n, text) ==
    Cardinality({k \in 1..n : IsContentNode(nodes[k]) /\ nodeToString(nodes[k]) = text})

\* C21: an at-rule processed while no marker has set a destination goes,
\* whole, to exactly one destination: the file of v when it is @media or
\* @supports and the union of the anchor values over the rules nested in
\* it is {v}, the global file otherwise (any other at-rule included).
C21_AtRuleRouting ==
    (rt.phase = "route" /\ rt.i >= 1 /\ LastNode.type = "atrule"
        /\ ~LastNode.raises /\ Unmarked(rt.i))
    => LET dest == AtRuleDestination(LastNode)
           val == MapGet(rt.files, dest)
       IN /\ val # <<>> /\ val[Len(val)] = nodeToString(LastNode)
          /\ EntriesEqual(rt.files, nodeToString(LastNode))
                = TextCount(rt.nodes, rt.i, nodeToString(LastNode))

\* an @supports block whose nested rules name only the header value, one
\* of them twice, has gone to the header file, and an @media block naming
\* two values has gone to the global file
C21_Witness ==
    /\ rt.phase = "route" /\ rt.i = 2 /\ Unmarked(2)
    /\ rt.nodes[1].type = "atrule" /\ rt.nodes[1].name = "supports"
    /\ NestedValues(rt.nodes[1]) = {<<"header">>}
    /\ MapGet(rt.files, WidgetFile(<<"header">>)) = <<nodeToString(rt.nodes[1])>>
    /\ rt.nodes[2].type = "atrule" /\ rt.nodes[2].name = "media"
    /\ Cardinality(NestedValues(rt.nodes[2])) = 2
    /\ MapGet(rt.files, GlobalFile) = <<nodeToString(rt.nodes[2])>>

IsPassThrough(node) ==
    node.type = "atrule" /\ node.name \in {"import", "charset"}

\* C22 as claimed: an @import or @charset at-rule of the bundle is never
\* appended to the content of a destination file, be it the global file,
\* a per-value file or a file a marker declares.
C22_ImportCharsetUnrouted ==
    \A k \in 1..rt.i :
        IsPassThrough(rt.nodes[k]) =>
            EntriesEqual(rt.files, nodeToString(rt.nodes[k])) = 0

-----------------------------------------------------------------------------
(* Claims about the content build keeps                                    *)

\* the maximal runs of parts of a file that are not imports, as pairs of
\* positions
SpansOf(shape) ==
    {s \in (1..Len(shape)) \X (1..Len(shape)) :
        /\ s[1] <= s[2]
        /\ \A k \in s[1]..s[2] : ~IsImportSym(shape[k])
        /\ s[1] = 1 \/ IsImportSym(shape[s[1] - 1])
        /\ s[2] = Len(shape) \/ IsImportSym(shape[s[2] + 1])}

\* the trimmed text of a span
SpanText(id, shape, s) ==
    Join([k \in 1..(s[2] - s[1] + 1) |-> PartText(id, shape, s[1] + k - 1)], <<NL>>)

\* a span as the claim has it in the output: the file's marker, then the
\* span
MarkedSpan(id, shape, s) ==
    createFileMarker(PathOf(id)) \o <<NL>> \o SpanText(id, shape, s) \o <<NL>>

\* C23 as claimed: for every file the resolver reads, every span of
\* content between its imports (the whole content when it has none)
\* stands in the output after a marker of that file of its own.
C23_NoContentLost ==
    Built =>
        \A id \in Reached(bld.tree) \cap Present(bld.tree) :
            \A s \in SpansOf(bld.tree[id]) :
                Includes(bld.out, MarkedSpan(id, bld.tree[id], s))

\* what holds of it: the content of a file without imports, and the span
\* after the last import of a file, stand in the output under a marker
C23_LeafAndTrailingSpansKept ==
    Built =>
        \A id \in Reached(bld.tree) \cap Present(bld.tree) :
            \A s \in SpansOf(bld.tree[id]) :
                s[2] = Len(bld.tree[id]) =>
                    Includes(bld.out, MarkedSpan(id, bld.tree[id], s))

-----------------------------------------------------------------------------
(* Claims about the empty-node pruner (SpecPrune)                          *)

\* the nodes of a tree, at any depth
RECURSIVE AllNodes(_)
AllNodes(nodes) ==
    IF nodes = <<>> THEN {}
    ELSE {Head(nodes)} \cup AllNodes(Head(nodes).nodes) \cup AllNodes(Tail(nodes))

ChildTypes(node) == {node.nodes[k].type : k \in 1..Len(node.nodes)}

IsEmptyRule(node) == node.type = "rule" /\ "decl" \notin ChildTypes(node)

IsEmptyAtRule(node) ==
    /\ node.type = "atrule" /\ node.name \notin {"import", "charset"}
    /\ ChildTypes(node) \cap {"rule", "atrule", "decl"} = {}

\* C24 as claimed: in the output of cleanCss no rule without a declaration
\* remains, and no at-rule other than @import/@charset remains, at any
\* depth, whose children hold no rule, at-rule or declaration, whether it
\* was empty from the start or became so when its nested rules or nested
\* at-rules were removed.
C24_NoEmptyNodeRemains ==
    pr.phase = "done" =>
        \A node \in AllNodes(pr.root) : ~IsEmptyRule(node) /\ ~IsEmptyAtRule(node)

\* what holds of it: no rule without a declaration remains, and no
\* at-rule remains empty unless a nested at-rule was removed from it
C24_NoEmptyRuleRemains ==
    pr.phase = "done" =>
        /\ \A node \in AllNodes(pr.root) : ~IsEmptyRule(node)
        /\ \A node \in AllNodes(pr.root) :
              IsEmptyAtRule(node) =>
                 \E k \in 1..Len(pr.input) :
                    \E before \in AllNodes(<<pr.input[k]>>) :
                       /\ before.type = "atrule" /\ before.name = node.name
                       /\ "atrule" \in ChildTypes(before)

\* the top-level file headers the third pass meets
HeadersScanned == {k \in 1..Len(pr.scanned) : isFileHeader(pr.scanned[k])}

Survives(node) == \E k \in 1..Len(pr.root) : pr.root[k].id = node.id

\* j is the first rule among the siblings after position k, and no file
\* header stands between them
FirstRuleAfter(k, j) ==
    /\ j > k /\ j <= Len(pr.scanned) /\ pr.scanned[j].type = "rule"
    /\ \A m \in (k + 1)..(j - 1) :
          pr.scanned[m].type # "rule" /\ ~isFileHeader(pr.scanned[m])

\* the anchor values a rule is tagged with
TagsOf(rule) == AnchorUnion(SplitSelectors(rule.selector))

\* C25 as claimed: a file header survives cleanCss exactly when, among
\* its following siblings, a rule stands before the end of the input and
\* before the next file header, and that rule is tagged with the value the
\* header declares.
C25_HeaderRetention ==
    pr.phase = "done" =>
        \A k \in HeadersScanned :
            Survives(pr.scanned[k]) <=>
                \E j \in 1..Len(pr.scanned) :
                    /\ FirstRuleAfter(k, j)
                    /\ getHeaderAnchor(pr.scanned[k]) # Null
                    /\ getHeaderAnchor(pr.scanned[k]) \in TagsOf(pr.scanned[j])

\* what holds of it: the same with the rule's tag read as the first
\* double-quoted anchor value of its selector
C25_HeaderRetentionByFirstDoubleQuoted ==
    pr.phase = "done" =>
        \A k \in HeadersScanned :
            Survives(pr.scanned[k]) <=>
                \E j \in 1..Len(pr.scanned) :
                    /\ FirstRuleAfter(k, j)
                    /\ getHeaderAnchor(pr.scanned[k]) # Null
                    /\ getHeaderAnchor(pr.scanned[k]) = getRuleAnchor(pr.scanned[j])

\* a comment of the bundle that the marker codec decodes to a path
IsFileMarkerComment(node) ==
    /\ node.type = "comment"
    /\ parseFileMarker(<<"/*", SP>> \o node.text \o <<SP, "*/">>) # Null

\* a rule in the scope of the marker at position k of the input survives
MarkerHasSurvivingRule(k) ==
    \E j \in (k + 1)..Len(pr.input) :
        /\ pr.input[j].type = "rule" /\ Survives(pr.input[j])
        /\ \A m \in (k + 1)..(j - 1) : ~IsFileMarkerComment(pr.input[m])

\* C26 as claimed: a file marker of the built bundle that is followed by
\* at least one surviving rule of its file is still present after cleanCss.
C26_MarkersOfSurvivingRulesKept ==
    pr.phase = "done" =>
        \A k \in 1..Len(pr.input) :
            (IsFileMarkerComment(pr.input[k]) /\ MarkerHasSurvivingRule(k))
                => Survives(pr.input[k])

\* what holds instead: no file marker is present after cleanCss
C26_NoMarkerSurvives ==
    pr.phase = "done" =>
        \A node \in AllNodes(pr.root) : ~IsFileMarkerComment(node)

-----------------------------------------------------------------------------
(* Claims about cycle diagnostics (SpecBuild)                              *)

\* the import graph has a cycle through the file
OnCycle(tree, id) == id \in ReachPlus(tree, id)

\* C27 as claimed: the output holds a cycle diagnostic for a path only
\* when the import graph has a cycle through that path; for an acyclic
\* graph, also one that imports a file from two places or names a missing
\* file twice, the output holds no cycle diagnostic.
C27_DiagnosticsOnlyForCycles ==
    Built =>
        \A id \in FileIds :
            CircCount(bld.out, id) > 0 => OnCycle(bld.tree, id)

\* what holds instead: a cycle diagnostic for a path stands in the output
\* exactly when the files build read name the path more than once, or
\* name the entry file
C27_DiagnosticsForRepeatedPaths ==
    Built =>
        \A id \in FileIds :
            CircCount(bld.out, id) > 0 <=>
                ImportCount(bld.tree, id) > (IF id = "main" THEN 0 ELSE 1)

-----------------------------------------------------------------------------
(* Claims about repeated repair (SpecSync)                                 *)

\* sync() has run with --fix
Repaired == sy.phase = "done" /\ sy.fix

\* C28 as claimed: after sync has run with --fix, on any manifest and
\* disk, checkManifestSync on the disk it left reports no missing file and
\* the orphaned list of before the repair, so that it is in sync exactly
\* when nothing is orphaned, and a second run with --fix leaves the disk
\* as it is.
C28_RepairConverges ==
    Repaired =>
        LET again == checkManifestSync(disk)
        IN /\ again.missing = <<>>
           /\ again.orphaned = sy.result.orphaned
           /\ again.inSync <=> (again.orphaned = <<>>)
           /\ SyncRun(disk, TRUE) = disk

HasQuote(path) == \E k \in 1..Len(path) : path[k] \in QUOTES

\* what holds of it: the same when no source file on the disk has a quote
\* character in its name
C28_RepairConvergesPlainNames ==
    (Repaired /\ \A p \in DOMAIN disk : ~HasQuote(p)) =>
        LET again == checkManifestSync(disk)
        IN /\ again.missing = <<>>
           /\ again.orphaned = sy.result.orphaned
           /\ again.inSync <=> (again.orphaned = <<>>)
           /\ SyncRun(disk, TRUE) = disk

-----------------------------------------------------------------------------
(* Claims about where unbundle writes                                      *)

InsideRoot(path) == StartsWith(path, ROOT_DIR \o <<"/">>)

\* C29 as claimed: every path unbundle writes to lies inside the project
\* root, whatever path a marker of the bundle names.
C29_WritesInsideRoot ==
    \A k \in 1..Len(unb.written) : InsideRoot(unb.written[k])

\* the second half of C29: a node routed to a single widget lands in a
\* file that stands directly in src/by-css-anchor, whatever the value
C29_WidgetFileInAnchorsDir ==
    (pure.kind = "selectors" /\ "route" \in pure.done /\ pure.route.type = "widget")
        => dirname(join(ROOT_DIR, getFilePath(pure.route))) = ANCHORS_DIR

-----------------------------------------------------------------------------
(* Claims about node conservation in routeBundle (SpecRoute)               *)

\* the destination of the content node at position k: the path of the
\* last marker before it, or else the file its anchors select
DestinationOf(nodes, k) ==
    IF LastMarkerIndex(nodes, k) # 0 THEN MarkerDest(nodes, k)
    ELSE IF nodes[k].type = "rule"
    THEN LET u == AnchorUnion(SplitSelectors(nodes[k].selector))
         IN IF Cardinality(u) = 1 THEN WidgetFile(CHOOSE v \in u : TRUE) ELSE GlobalFile
    ELSE IF nodes[k].type = "atrule" THEN AtRuleDestination(nodes[k])
    ELSE GlobalFile

\* the texts of the content nodes among the first n whose destination is
\* f, in document order
RECURSIVE ExpectedEntries(_, _, _)
ExpectedEntries(nodes, n, f) ==
    IF n = 0 THEN <<>>
    ELSE ExpectedEntries(nodes, n - 1, f) \o
         (IF IsContentNode(nodes[n]) /\ DestinationOf(nodes, n) = f
          THEN <<nodeToString(nodes[n])>> ELSE <<>>)

\* the texts of the raising nodes among the first n, in document order
RECURSIVE ExpectedQuarantine(_, _)
ExpectedQuarantine(nodes, n) ==
    IF n = 0 THEN <<>>
    ELSE ExpectedQuarantine(nodes, n - 1) \o
         (IF nodes[n].raises THEN <<nodeToString(nodes[n])>> ELSE <<>>)

Destinations(nodes, n) ==
    {rt.files[k].path : k \in 1..Len(rt.files)}
        \cup {DestinationOf(nodes, k) : k \in {j \in 1..n : IsContentNode(nodes[j])}}

\* C30: for a bundle that parses, after any number of nodes every node
\* processed is accounted for once: a marker or a banner adds nothing,
\* a node that raises adds its text to the quarantine and one error, and
\* any other node adds its text once to the list of its one destination;
\* every list holds its nodes in document order and nothing else.
C30_NodeConservation ==
    (rt.phase \in {"route", "done"} /\ ~rt.broken) =>
        /\ \A f \in Destinations(rt.nodes, rt.i) :
              MapGet(rt.files, f) = ExpectedEntries(rt.nodes, rt.i, f)
        /\ \A k \in 1..Len(rt.files) : rt.files[k].val # <<>>
        /\ \A j, k \in 1..Len(rt.files) : rt.files[j].path = rt.files[k].path => j = k
        /\ rt.quarantine = ExpectedQuarantine(rt.nodes, rt.i)
        /\ Len(rt.errors) = Len(rt.quarantine)
        /\ TotalEntries(rt.files) + Len(rt.quarantine)
              + Cardinality({k \in 1..rt.i : IsMarkerNode(rt.nodes[k])})
              + Cardinality({k \in 1..rt.i :
                    /\ ~rt.nodes[k].raises /\ ~IsMarkerNode(rt.nodes[k])
                    /\ rt.nodes[k].type = "comment" /\ IsBanner(rt.nodes[k].text)})
              = rt.i

\* two rules without anchors around a rule with one, no marker: the
\* global file holds the first and the third in that order, the widget
\* file the second
C30_Witness ==
    /\ rt.phase = "done" /\ ~rt.broken /\ Len(rt.nodes) = 3
    /\ \A k \in 1..3 : rt.nodes[k].type = "rule" /\ ~rt.nodes[k].raises
    /\ MapGet(rt.files, GlobalFile)
          = <<nodeToString(rt.nodes[1]), nodeToString(rt.nodes[3])>>
    /\ rt.nodes[1] # rt.nodes[3]
    /\ MapGet(rt.files, WidgetFile(<<"header">>)) = <<nodeToString(rt.nodes[2])>>

=============================================================================
